---- MODULE Spec2Model ----
(***************************************************************************)
(* Verification model of the SBA consensus core of dusk-blockchain:        *)
(* the first-step reduction aggregator (firststep/aggregator.go), the      *)
(* first-step Reducer (firststep/reducer.go) and the legacy BlockReduction *)
(* driver (consensus/blockreduction.go).                                   *)
(***************************************************************************)
EXTENDS Integers, Sequences, FiniteSets, TLC

VARIABLES
  finished,    \* aggregator.finished
  voteSets,    \* aggregator.voteSets: block hash -> (StepVotes, Cluster)
  haltChan,    \* the HaltMsgs sent on aggregator.haltChan, in order
  lock,        \* holder of aggregator.lock, or NoThread
  pc,          \* position of each goroutine calling collectVote
  ev,          \* the Reduction message each goroutine passed to collectVote
  hm,          \* the HaltMsg a goroutine is about to send
  ret,         \* what each goroutine's last collectVote returned
  candidates,  \* what the rpcBus answers for each candidate block hash
  delivered,   \* how often each message was handed to collectVote so far
  prog,        \* which reduction driver runs: the Reducer or BlockReduction
  curStep,     \* the Stepper's step counter
  listeners,   \* ids of the listeners subscribed to topics.Reduction
  reductionID, \* Reducer.reductionID
  timer,       \* Reducer.Timer
  published,   \* the buffers published on topics.StepVotes, in order
  brpc,        \* where BlockReduction stands
  ctx,         \* the consensus Context: Step, BlockHash, BlockVotes, votes
  startHash,   \* BlockReduction's saved starting value
  counts,      \* countVotesReduction: votes cast per block hash
  voters,      \* countVotesReduction: the nodes whose vote is recorded
  brRet,       \* what BlockReduction returned
  agreement,   \* the vote sets handed to sendSetAgreement
  stepEnds,    \* how each countVotesReduction so far ended: by quorum or by timeout
  brCall,      \* the part of BlockReduction that ran last, with the message it took
  stepVotes,   \* a StepVotes that votes are added to
  lastAdd,     \* the arguments of the last StepVotes.Add call
  addErr,      \* whether the last StepVotes.Add call returned an error
  addCalls,    \* the number of StepVotes.Add calls made
  agr,         \* the Agreement handed to the agreement handler
  verifyErr,   \* what handler.Verify returned for it
  voterKeys,   \* what handler.getVoterKeys returned for it
  wireOp,      \* the marshalling operation called: marshal or unmarshal
  votesIn,     \* the StepVotes pointers handed to MarshalVotes
  buffer,      \* the bytes.Buffer written by MarshalVotes or read by UnmarshalAgreement
  decoded,     \* the Agreement fields UnmarshalAgreement has set
  wireErr,     \* the error the marshalling operation returned
  loopState,   \* the agreement component: running, returned or cancelled
  accQueue,    \* agreement events handed to the Accumulator, not yet stored
  accStore,    \* the Accumulator's store: the senders seen per step and hash
  collectedVotesChan, \* final results the Accumulator has sent back
  winners,     \* the block hashes the agreement component returned as winner
  provisioners, \* a user.Provisioners value: the Set and the Members map
  provCall,    \* the Provisioners or Member function called, with its arguments
  provRet,     \* what the function returned
  reduction,   \* a Reduction event: header fields, VotedHash and SignedHash
  voteCheck,   \* a verification of the event's signature as a vote
  syncState,   \* Synchronizer.state: inSync or outSync
  ledger,      \* the chain: the blocks accepted, by height from 1
  highestSeen, \* Synchronizer.highestSeen
  syncTarget,  \* Synchronizer.syncTarget
  blockPool,   \* the sequencer's pool: the blocks stored, by height
  producing,   \* TRUE iff the chain's block production is running
  produceStarting, \* TRUE iff a goroutine started by outSync has yet to call
                   \* chain.ProduceBlock
  succeeding,  \* the block last handed to chain.ProcessSucceedingBlock, if any
  syncCall,    \* the Synchronizer function called last, with its arguments
  syncRet,     \* what it returned
  search,      \* a call of utils.Search: its arguments, its locals i and j, the
               \* index probed last, where it stands and what it returned
  chainTxs,    \* the transactions of the chain the TxRetriever goes through
  stakeCall,   \* InCommittee or FindStake, as called last, with its arguments
  stakeRet,    \* what it returned
  verified,    \* Mempool.verified: the transactions of the pool, by tx id
  advertised,  \* the tx ids the Mempool handler that ran last advertised
  mempoolCall, \* the Mempool handler that ran last, with its argument
  mempoolRet   \* what it returned

aggVars == <<finished, voteSets, haltChan, lock, pc, ev, hm, ret, candidates, delivered>>

redVars == <<curStep, listeners, reductionID, timer, published>>

brVars == <<brpc, ctx, startHash, counts, voters, brRet, agreement, stepEnds, brCall>>

addVars == <<stepVotes, lastAdd, addErr, addCalls>>

agrVars == <<agr, verifyErr, voterKeys>>

wireVars == <<wireOp, votesIn, buffer, decoded, wireErr>>

loopVars == <<loopState, accQueue, accStore, collectedVotesChan, winners>>

provVars == <<provisioners, provCall, provRet>>

signVars == <<reduction, voteCheck>>

syncVars ==
  <<syncState, ledger, highestSeen, syncTarget, blockPool, producing, succeeding,
    syncCall, syncRet, produceStarting>>

utilVars ==
  <<search, chainTxs, stakeCall, stakeRet, verified, advertised, mempoolCall, mempoolRet>>

restVars == <<signVars, syncVars, utilVars>>

moreVars == <<loopVars, provVars, restVars>>

fnVars == <<addVars, agrVars, wireVars, moreVars>>

vars == <<aggVars, prog, redVars, brVars, fnVars>>

\* ------------------------------------------------------------------ bounds
\* number of provisioners, all with an active stake at the modelled round
NProvisioners == 4
\* number of collectVote calls made on one aggregator
MaxCalls == 3
\* last step at which a reduction cycle is started
MaxSteps == 1
\* largest number of votes sortition grants one node in a step
MaxVotes == 2
\* number of StepVotes.Add calls made on one StepVotes
MaxAdds == 2
\* highest block height received by the synchronizer
MaxHeight == 4
\* longest list of StepVotes marshalled or announced on the wire
MaxListLen == 3
\* largest amount of one stake
MaxAmount == 2
\* most stakes held by one member
MaxStakes == 2
\* largest n utils.Search is called with
MaxSearchN == 4
\* most transactions on the chain the TxRetriever goes through
MaxChainTxs == 3
\* most transactions in an accepted block
MaxBlockTxs == 2

\* ------------------------------------------------------- program constants
MaxCommitteeSize == 64
emptyHash == 0
\* math.MaxInt8
MaxInt8 == 127
\* the values of a uint8
U8 == 0..255
\* a nil block hash
NilHash == -1
\* the step a round starts its first reduction at
FirstStep == 1
\* ctx.VoteLimit
VoteLimit == 2
\* ctx.Keys.EdPubKey, the key of this node
OwnKey == 1

Keys == 1..NProvisioners
Rounds == {1}
Steps == {1, 2}
Hashes == {emptyHash, 1}
Threads == {"g1", "g2"}
NoThread == "none"

\* ------------------------------------------------------------ bag helpers
RECURSIVE SumOver(_, _)
SumOver(f, S) ==
  IF S = {} THEN 0
  ELSE LET x == CHOOSE y \in S : TRUE IN f[x] + SumOver(f, S \ {x})

RECURSIVE Pow2(_)
Pow2(n) == IF n = 0 THEN 1 ELSE 2 * Pow2(n - 1)

Min(a, b) == IF a < b THEN a ELSE b

\* ------------------------------------------------- sortedset.Cluster
\* a multiset of BLS keys: key -> number of occurrences
NewCluster == [k \in Keys |-> 0]

ClusterInsert(c, k) == [c EXCEPT ![k] = @ + 1]

RECURSIVE InsertTimes(_, _, _)
InsertTimes(c, k, n) == IF n = 0 THEN c ELSE InsertTimes(ClusterInsert(c, k), k, n - 1)

TotalOccurrences(c) == SumOver(c, Keys)

\* the sorted set of unique keys of a cluster
ClusterSet(c) == {k \in Keys : c[k] > 0}

\* ------------------------------------------------- committee (sortition)
\* user.Provisioners.Members: every provisioner holds one stake of 1, active
\* at the modelled rounds
Members == [k \in Keys |-> <<[Amount |-> 1, StartHeight |-> 0, EndHeight |-> 10]>>]

\* Provisioners.SubsetSizeAt: the members with a stake active at round
SubsetSizeAt(p, round) ==
  Cardinality({k \in DOMAIN p :
                 \E i \in 1..Len(p[k]) :
                   p[k][i].StartHeight <= round /\ round <= p[k][i].EndHeight})

CommitteeSize(round, maxSize) == Min(maxSize, SubsetSizeAt(Members, round))

\* the key drawn for slot i of the committee of (round, step): a deterministic
\* draw with repetition
Slot(round, step, i) == ((((i * (i + step)) \div 2) + round) % NProvisioners) + 1

\* the committees of all modelled rounds and steps: key -> number of slots
Committees ==
  [round \in Rounds, step \in U8 |->
     [k \in Keys |->
        Cardinality({i \in 1..CommitteeSize(round, MaxCommitteeSize) :
                       Slot(round, step, i) = k})]]

Committee(round, step) == Committees[round, step]

VotesFor(pubKeyBLS, round, step) == Committee(round, step)[pubKeyBLS]

IsMember(pubKeyBLS, round, step) == VotesFor(pubKeyBLS, round, step) > 0

\* position (from 0) of key k among the sorted unique keys of a committee
Position(committee, k) == Cardinality({j \in ClusterSet(committee) : j < k})

\* VotingCommittee.Bits: bit i is set iff the i-th unique committee key is in set
\* (a committee has at most MaxCommitteeSize = 64 keys, so the sum fits a uint64)
Bits(committee, set) ==
  LET hit == {k \in ClusterSet(committee) : k \in set}
      w == [k \in Keys |-> IF k \in hit THEN Pow2(Position(committee, k)) ELSE 0]
  IN SumOver(w, Keys)

\* VotingCommittee.IntersectCluster: the committee members a bitset selects
IntersectCluster(committee, bitset) ==
  [k \in Keys |->
     IF k \in ClusterSet(committee) /\ (bitset \div Pow2(Position(committee, k))) % 2 = 1
     THEN committee[k] ELSE 0]

QuorumHalf(round) == (CommitteeSize(round, MaxCommitteeSize) + 1) \div 2

\* ceil(0.75 * committee size)
Quorum(round) == (3 * CommitteeSize(round, MaxCommitteeSize) + 3) \div 4

\* ------------------------------------------------- message.StepVotes
\* Apk and Signature are BLS aggregates: the multiset of keys / signers
\* summed into them; nil is the empty multiset
NilAggregate == [k \in Keys |-> 0]

NewStepVotes == [Apk |-> NilAggregate, BitSet |-> 0, Signature |-> NilAggregate, Step |-> 0]

UnmarshalPkOK(sender) == sender \in Keys

UnmarshalSignatureOK(signature) == signature \in Keys

AggregateBytes(agg, k) == [agg EXCEPT ![k] = @ + 1]

\* StepVotes.Add: the StepVotes after the call and whether it returned an error
Add(s, signature, sender, step) ==
  IF s.Apk = NilAggregate
  THEN IF ~UnmarshalPkOK(sender) THEN [sv |-> s, err |-> TRUE]
       ELSE LET s1 == [s EXCEPT !.Step = step, !.Apk = AggregateBytes(NilAggregate, sender)]
            IN IF ~UnmarshalSignatureOK(signature) THEN [sv |-> s1, err |-> TRUE]
               ELSE [sv |-> [s1 EXCEPT !.Signature = AggregateBytes(NilAggregate, signature)],
                     err |-> FALSE]
  ELSE IF step # s.Step THEN [sv |-> s, err |-> TRUE]
  ELSE IF ~UnmarshalPkOK(sender) THEN [sv |-> s, err |-> TRUE]
  ELSE LET s1 == [s EXCEPT !.Apk = AggregateBytes(s.Apk, sender)]
       IN IF ~UnmarshalSignatureOK(signature) THEN [sv |-> s1, err |-> TRUE]
          ELSE [sv |-> [s1 EXCEPT !.Signature = AggregateBytes(s.Signature, signature)],
                err |-> FALSE]

\* ------------------------------------------------- Reduction messages
\* message.Reduction: header (sender key, round, step, block hash) and SignedHash,
\* the sender's signature, named by its signer
Reductions ==
  [sender : Keys, round : Rounds, step : Steps, hash : Hashes, signed : Keys]

\* the messages that pass Reducer.Filter and handler.VerifySignature
ValidReductions ==
  {m \in Reductions : IsMember(m.sender, m.round, m.step) /\ m.signed = m.sender}

NoReduction == [sender |-> 0, round |-> 0, step |-> 0, hash |-> emptyHash, signed |-> 0]

NoHalt == [Hash |-> emptyHash, Sv |-> <<>>]

\* ------------------------------------------------- aggregator
newVoteSets == [h \in {} |-> [StepVotes |-> NewStepVotes, Cluster |-> NewCluster]]

addBitSet(sv, cluster, round, step) ==
  [sv EXCEPT !.BitSet = Bits(Committee(round, step), ClusterSet(cluster))]

QuorumReached(cluster, round) == TotalOccurrences(cluster) >= Quorum(round)

InsertOnce(c, k, n) == IF n = 0 THEN c ELSE ClusterInsert(c, k)

\* the loop `for i := 0; i < votes; i++ { sv.Cluster.Insert(hdr.PubKeyBLS) }`
InsertVotes(c, k, n) == InsertTimes(c, k, n)

\* collectVote after the finished check, up to the decision of quorum: the
\* new finished and voteSets, and the way the call continues
collectVoteLive(vs, e) ==
  LET hash == e.hash
      found == hash \in DOMAIN vs
      sv == IF found THEN vs[hash]
            ELSE [StepVotes |-> NewStepVotes, Cluster |-> NewCluster]
      r == Add(sv.StepVotes, e.signed, e.sender, e.step)
  IN IF r.err
     THEN [finished |-> FALSE,
           voteSets |-> IF found THEN [vs EXCEPT ![hash].StepVotes = r.sv] ELSE vs,
           out |-> "err"]
     ELSE
       LET votes == VotesFor(e.sender, e.round, e.step)
           cl == InsertVotes(sv.Cluster, e.sender, votes)
           q == QuorumReached(cl, e.round)
           sv1 == IF q THEN addBitSet(r.sv, cl, e.round, e.step) ELSE r.sv
       IN [finished |-> q,
           voteSets |-> (hash :> [StepVotes |-> sv1, Cluster |-> cl]) @@ vs,
           out |-> IF q THEN "quorum" ELSE "noquorum"]

collectVoteUnchecked(fin, vs, e) == collectVoteLive(vs, e)

\* collectVote from the finished check to the decision of quorum (the part
\* that runs without suspension)
collectVoteBody(fin, vs, e) ==
  IF fin THEN [finished |-> fin, voteSets |-> vs, out |-> "dropped"]
  ELSE collectVoteLive(vs, e)

\* rpcBus.Call(topics.GetCandidate): TRUE iff it returns an error
GetCandidateFails(blockHash) == candidates[blockHash] = "missing"

VerifyErrorIgnored(blockHash) == FALSE

\* rpcBus.Call(topics.VerifyCandidateBlock): TRUE iff it returns an error
VerifyCandidateBlockFails(blockHash) == candidates[blockHash] = "invalid"

\* verifyCandidateBlock: TRUE iff it returns an error
verifyCandidateBlock(blockHash) ==
  \/ GetCandidateFails(blockHash)
  \/ (blockHash # emptyHash /\ VerifyCandidateBlockFails(blockHash))

\* the HaltMsg collectVote sends after quorum
HaltFailed == [Hash |-> emptyHash, Sv |-> <<>>]

HaltQuorum(blockHash, sv) == [Hash |-> blockHash, Sv |-> <<sv>>]

\* collectVote run to completion by one caller: the aggregator afterwards
collectVote(a, e) ==
  LET b == collectVoteBody(a.finished, a.voteSets, e)
      sv == b.voteSets[e.hash].StepVotes
      msg == IF e.hash # emptyHash /\ verifyCandidateBlock(e.hash)
             THEN HaltFailed ELSE HaltQuorum(e.hash, sv)
  IN [finished |-> b.finished, voteSets |-> b.voteSets,
      haltChan |-> IF b.out = "quorum" THEN Append(a.haltChan, msg) ELSE a.haltChan]

\* ------------------------------------------------- the aggregator's callers
Suspended == {"fetch", "verify", "send"}

InitAggregator ==
  /\ finished = FALSE
  /\ voteSets = newVoteSets
  /\ haltChan = <<>>
  /\ lock = NoThread

InitCallers ==
  /\ pc = [t \in Threads |-> "idle"]
  /\ ev = [t \in Threads |-> NoReduction]
  /\ hm = [t \in Threads |-> NoHalt]
  /\ ret = [t \in Threads |-> "none"]
  /\ delivered = [m \in ValidReductions |-> 0]

\* what the candidate store and the verifier hold for each block hash
InitCandidates == candidates \in [Hashes \ {emptyHash} -> {"valid", "invalid", "missing"}]

\* Reducer after NewComponent and Initialize
InitReducer ==
  /\ curStep = FirstStep
  /\ listeners = {}
  /\ reductionID = 0
  /\ timer = "stopped"
  /\ published = <<>>

\* the counts map of countVotesReduction before any vote
NoCounts == [x \in Hashes |-> 0]

\* the Context handed to BlockReduction, voting on block hash h
InitContext(h) ==
  /\ brpc = "idle"
  /\ ctx = [Step |-> FirstStep, BlockHash |-> h, BlockVotes |-> <<>>, votes |-> 0]
  /\ startHash = NilHash
  /\ counts = NoCounts
  /\ voters = {}
  /\ brRet = "none"
  /\ agreement = <<>>
  /\ stepEnds = <<>>
  /\ brCall = [op |-> "none"]

\* bytes that unmarshal to no BLS key and no BLS signature
BadBytes == 0

NoAdd == [signature |-> BadBytes, sender |-> BadBytes, step |-> 0]

\* no Agreement handled yet
NoAgreement ==
  [sender |-> BadBytes, round |-> 0, step |-> 0, hash |-> emptyHash,
   signedVotes |-> BadBytes, VotesPerStep |-> <<>>]

NoKeys == [keys |-> <<>>, err |-> "none"]

InitAgreement ==
  /\ agr = NoAgreement
  /\ verifyErr = "none"
  /\ voterKeys = NoKeys

\* an Agreement as UnmarshalAgreement finds it: no field set
NoDecoded == [signedVotes |-> <<>>, VotesPerStep |-> <<>>]

\* no marshalling operation called
InitWire ==
  /\ wireOp = "none"
  /\ votesIn = <<>>
  /\ buffer = <<>>
  /\ decoded = NoDecoded
  /\ wireErr = "none"

\* the step and block hash the Accumulator sorts agreement events by
LoopKeys == {[step |-> 1, hash |-> 1], [step |-> 2, hash |-> 2]}

\* the agreement component as Run starts it: a new Accumulator, nothing
\* collected
InitLoop ==
  /\ loopState = "running"
  /\ accQueue = {}
  /\ accStore = [k \in LoopKeys |-> {}]
  /\ collectedVotesChan = <<>>
  /\ winners = <<>>

\* NewProvisioners: an empty Set and an empty Members map
NewProvisioners == [Set |-> {}, Members |-> <<>>]

\* no Provisioners function called
NoCall == [op |-> "none"]

InitProvisionerCalls ==
  /\ provCall = NoCall
  /\ provRet = <<>>

\* NewReduction: an empty Reduction event
NewReduction == [PubKeyBLS |-> 0, Round |-> 0, Step |-> 0, VotedHash |-> 0, SignedHash |-> <<>>]

\* no signature verified
NoCheck == [done |-> FALSE]

InitSigning ==
  /\ reduction = NewReduction
  /\ voteCheck = NoCheck

\* no block stored at any height
EmptyPool == [h \in {} |-> 0]

\* NewSynchronizer on a chain that holds the genesis block only: in sync,
\* an empty sequencer, nothing called
InitSynchronizer ==
  /\ syncState = "inSync"
  /\ ledger = <<>>
  /\ syncTarget = 0
  /\ blockPool = EmptyPool
  /\ producing = TRUE
  /\ produceStarting = FALSE
  /\ succeeding = <<>>
  /\ syncCall = NoCall
  /\ syncRet = <<>>

\* no call of utils.Search made
NoSearch == [n |-> 0, f |-> <<>>, i |-> 0, j |-> 0, h |-> <<>>, pc |-> "idle", ret |-> <<>>]

\* Mempool.newPool: a pool without transactions
NewPool == [k \in {} |-> 0]

\* nothing searched, an empty chain, NewMempool
InitUtils ==
  /\ search = NoSearch
  /\ chainTxs = <<>>
  /\ stakeCall = NoCall
  /\ stakeRet = <<>>
  /\ verified = NewPool
  /\ advertised = <<>>
  /\ mempoolCall = NoCall
  /\ mempoolRet = <<>>

InitRest ==
  /\ InitSigning
  /\ InitSynchronizer
  /\ InitUtils
  /\ highestSeen = 0

\* a fresh StepVotes, no Add call made; no Agreement handled
InitStepVotes ==
  /\ stepVotes = NewStepVotes
  /\ lastAdd = NoAdd
  /\ addErr = FALSE
  /\ addCalls = 0
  /\ InitAgreement
  /\ InitWire
  /\ InitLoop
  /\ provisioners = NewProvisioners
  /\ InitProvisionerCalls
  /\ InitRest

Init ==
  /\ InitAggregator
  /\ InitCallers
  /\ InitCandidates
  /\ prog = "aggregator"
  /\ InitReducer
  /\ InitContext(emptyHash)
  /\ InitStepVotes

\* number of collectVote calls made so far
Calls == SumOver(delivered, ValidReductions) + Cardinality({t \in Threads : pc[t] = "lock"})

\* a goroutine calls collectVote and reaches a.lock.Lock()
Call(t) ==
  /\ pc[t] = "idle"
  /\ Calls < MaxCalls
  /\ pc' = [pc EXCEPT ![t] = "lock"]
  /\ ret' = [ret EXCEPT ![t] = "none"]
  /\ UNCHANGED <<finished, voteSets, haltChan, lock, ev, hm, candidates, delivered, prog, redVars, brVars, fnVars>>

\* a.lock.Lock() succeeds; the call, made with the message e (which the code
\* reads only from here on), runs up to its return (the deferred Unlock
\* included) or, on quorum, up to its first suspension point
Enter(t, e) ==
  /\ pc[t] = "lock"
  /\ lock = NoThread
  /\ LET b == collectVoteBody(finished, voteSets, e)
     IN /\ finished' = b.finished
        /\ voteSets' = b.voteSets
        /\ delivered' = [delivered EXCEPT ![e] = @ + 1]
        /\ IF b.out = "quorum"
           THEN /\ lock' = t
                /\ ret' = ret
                /\ ev' = [ev EXCEPT ![t] = e]
                /\ IF e.hash # emptyHash
                   THEN /\ pc' = [pc EXCEPT ![t] = "fetch"]
                        /\ hm' = hm
                   ELSE /\ pc' = [pc EXCEPT ![t] = "send"]
                        /\ hm' = [hm EXCEPT ![t] =
                                    HaltQuorum(e.hash, b.voteSets[e.hash].StepVotes)]
           ELSE /\ lock' = NoThread
                /\ pc' = [pc EXCEPT ![t] = "idle"]
                /\ ret' = [ret EXCEPT ![t] = IF b.out = "err" THEN "err" ELSE "nil"]
                /\ UNCHANGED <<ev, hm>>
  /\ UNCHANGED <<haltChan, candidates, prog, redVars, brVars, fnVars>>

\* rpcBus.Call(topics.GetCandidate) returns
GetCandidateReturns(t) ==
  /\ pc[t] = "fetch"
  /\ IF GetCandidateFails(ev[t].hash)
     THEN /\ pc' = [pc EXCEPT ![t] = "send"]
          /\ hm' = [hm EXCEPT ![t] = HaltFailed]
     ELSE /\ pc' = [pc EXCEPT ![t] = "verify"]
          /\ hm' = hm
  /\ UNCHANGED <<finished, voteSets, haltChan, lock, ev, ret, candidates, delivered, prog, redVars, brVars, fnVars>>

\* rpcBus.Call(topics.VerifyCandidateBlock) returns
VerifyCandidateBlockReturns(t) ==
  /\ pc[t] = "verify"
  /\ pc' = [pc EXCEPT ![t] = "send"]
  /\ hm' = [hm EXCEPT ![t] =
              IF VerifyCandidateBlockFails(ev[t].hash) THEN HaltFailed
              ELSE HaltQuorum(ev[t].hash, voteSets[ev[t].hash].StepVotes)]
  /\ UNCHANGED <<finished, voteSets, haltChan, lock, ev, ret, candidates, delivered, prog, redVars, brVars, fnVars>>

\* the send on haltChan completes; collectVote returns nil and unlocks
SendHalt(t) ==
  /\ pc[t] = "send"
  /\ haltChan' = Append(haltChan, hm[t])
  /\ pc' = [pc EXCEPT ![t] = "idle"]
  /\ ret' = [ret EXCEPT ![t] = "nil"]
  /\ lock' = NoThread
  /\ ev' = [ev EXCEPT ![t] = NoReduction]
  /\ hm' = [hm EXCEPT ![t] = NoHalt]
  /\ UNCHANGED <<finished, voteSets, candidates, delivered, prog, redVars, brVars, fnVars>>

Next ==
  \/ \E t \in Threads : Call(t)
  \/ \E t \in Threads, e \in ValidReductions : Enter(t, e)
  \/ \E t \in Threads : GetCandidateReturns(t)
  \/ \E t \in Threads : VerifyCandidateBlockReturns(t)
  \/ \E t \in Threads : SendHalt(t)

Spec == Init /\ [][Next]_vars

\* ------------------------------------------------- Reducer (first step)
\* Reducer.Filter: TRUE iff the event is filtered out
Filter(hdr) == ~IsMember(hdr.sender, hdr.round, hdr.step)

\* handler.VerifySignature: the signature is the sender's, over the header
VerifySignatureOK(hdr, signedHash) == signedHash = hdr.sender

\* agreement.MarshalStepVotes: TRUE iff it returns an error
MarshalStepVotesFails(sv) == sv.Apk = NilAggregate \/ sv.Signature = NilAggregate

EmptyBuffer == [empty |-> TRUE, sv |-> NewStepVotes]

RequestStepUpdate(s) == s + 1

\* Reducer.Halt on the Reducer's fields r
Halt(r, svs) ==
  LET r1 == [r EXCEPT !.listeners = r.listeners \ {r.reductionID}]
  IN IF Len(svs) > 0 /\ MarshalStepVotesFails(svs[1]) THEN r1
     ELSE [r1 EXCEPT
             !.published = Append(r.published,
                                  IF Len(svs) > 0 THEN [empty |-> FALSE, sv |-> svs[1]]
                                  ELSE EmptyBuffer),
             !.step = RequestStepUpdate(r.step)]

ReducerFields ==
  [listeners |-> listeners, reductionID |-> reductionID, published |-> published, step |-> curStep]

SetReducerFields(r) ==
  /\ listeners' = r.listeners
  /\ reductionID' = r.reductionID
  /\ published' = r.published
  /\ curStep' = r.step

\* the Reduction events on the wire: signed by the sender or by its neighbour
ReducerEvents ==
  {m \in Reductions : m.signed \in {m.sender, (m.sender % NProvisioners) + 1}}

\* Reducer.CollectBestScore, with startReduction; selection sends the next
\* BestScore only once the previous reduction cycle has halted, and none to
\* a Reducer whose cycle was cut short by Finalize
CollectBestScore ==
  /\ prog = "reducer"
  /\ listeners = {}
  /\ reductionID = 0 \/ timer # "stopped"
  /\ curStep <= MaxSteps
  /\ reductionID' = reductionID + 1
  /\ listeners' = listeners \cup {reductionID + 1}
  /\ timer' = "running"
  /\ finished' = FALSE
  /\ voteSets' = newVoteSets
  /\ haltChan' = <<>>
  /\ UNCHANGED <<curStep, published, lock, pc, ev, hm, ret, candidates, delivered, prog, brVars, fnVars>>

\* a Reduction event reaches the subscribed FilteringListener: Filter, then
\* Reducer.CollectReductionEvent, then aggregator.collectVote, whose halt
\* runs Reducer.Halt
CollectReductionEvent(e) ==
  /\ prog = "reducer"
  /\ listeners # {}
  /\ IF Filter(e) \/ ~VerifySignatureOK(e, e.signed)
     THEN UNCHANGED <<finished, voteSets, haltChan, redVars>>
     ELSE LET a == collectVote([finished |-> finished, voteSets |-> voteSets,
                                haltChan |-> haltChan], e)
          IN /\ finished' = a.finished
             /\ voteSets' = a.voteSets
             /\ haltChan' = a.haltChan
             /\ timer' = timer
             /\ IF Len(a.haltChan) > Len(haltChan)
                THEN SetReducerFields(Halt(ReducerFields, a.haltChan[Len(a.haltChan)].Sv))
                ELSE UNCHANGED <<curStep, listeners, reductionID, published>>
  /\ UNCHANGED <<lock, pc, ev, hm, ret, candidates, delivered, prog, brVars, fnVars>>

\* the step timer expires and requests a halt with the empty hash
TimerExpires ==
  /\ prog = "reducer"
  /\ timer = "running"
  /\ timer' = "expired"
  /\ SetReducerFields(Halt(ReducerFields, <<>>))
  /\ UNCHANGED <<aggVars, prog, brVars, fnVars>>

\* Reducer.Finalize; stopping a timer that is not running changes nothing
Finalize ==
  /\ prog = "reducer"
  /\ timer' = IF timer = "running" THEN "stopped" ELSE timer
  /\ UNCHANGED <<curStep, listeners, reductionID, published, aggVars, prog, brVars, fnVars>>

\* ------------------------------------------------- BlockReduction
\* consensusmsg.NewVote
NewVote(hash, pubKey, s) == [Hash |-> hash, PubKey |-> pubKey, Step |-> s]

\* the Reduction messages on ctx.ReductionChan
BlockReductionMsgs == [PubKey : Keys, BlockHash : Hashes]

\* what processMsg can return for a message
ProcessResults == [valid : BOOLEAN, votes : 0..MaxVotes, err : BOOLEAN]

\* the loop of countVotesReduction that cuts the votes not cast for the
\* winning block: the range walks the n elements the slice had on entry,
\* reading the backing array, while each cut shifts the tail of the slice
\* down in that same array and shortens the slice
RECURSIVE CutLoop(_, _, _, _)
CutLoop(backing, len, i, winner) ==
  IF i = Len(backing) THEN [votes |-> SubSeq(backing, 1, len), panic |-> FALSE]
  ELSE IF backing[i + 1].Hash = winner THEN CutLoop(backing, len, i + 1, winner)
  ELSE IF i + 1 > len THEN [votes |-> SubSeq(backing, 1, len), panic |-> TRUE]
  ELSE CutLoop([j \in 1..Len(backing) |->
                  IF j > i /\ j < len THEN backing[j + 1] ELSE backing[j]],
               len - 1, i + 1, winner)

CutVotes(blockVotes, winner) == CutLoop(blockVotes, Len(blockVotes), 0, winner)

StepSkipped(s) == s

StepIncrement(s) == s + 1

\* BlockReduction, from the start to the first committeeVoteReduction
BlockReductionStart ==
  /\ prog = "blockreduction"
  /\ brpc = "idle"
  /\ ctx' = [ctx EXCEPT !.BlockVotes = <<>>]
  /\ startHash' = ctx.BlockHash
  /\ brpc' = "vote1"
  /\ brCall' = [op |-> "BlockReduction"]
  /\ UNCHANGED <<counts, voters, brRet, agreement, stepEnds, aggVars, prog, redVars, fnVars>>

\* committeeVoteReduction, and the lines of countVotesReduction before its
\* loop: sortition grants v votes or fails, and gossiping the vote may fail
committeeVoteReduction(v, err) ==
  /\ prog = "blockreduction"
  /\ brpc \in {"vote1", "vote2"}
  /\ err = "send" => v > 0
  /\ IF err = "sortition"
     THEN /\ brpc' = "done"
          /\ brRet' = "err"
          /\ UNCHANGED <<ctx, counts, voters>>
     ELSE IF err = "send"
     THEN /\ brpc' = "done"
          /\ brRet' = "err"
          /\ ctx' = [ctx EXCEPT !.votes = v]
          /\ UNCHANGED <<counts, voters>>
     ELSE /\ ctx' = [ctx EXCEPT !.votes = v]
          /\ voters' = {OwnKey}
          /\ counts' = [x \in Hashes |-> IF x = ctx.BlockHash THEN v ELSE 0]
          /\ brpc' = IF brpc = "vote1" THEN "count1" ELSE "count2"
          /\ brRet' = brRet
  /\ brCall' = [op |-> "committeeVoteReduction"]
  /\ UNCHANGED <<startHash, agreement, stepEnds, aggVars, prog, redVars, fnVars>>

\* BlockReduction after countVotesReduction returned nil with context c; the
\* locals of countVotesReduction are gone
AfterCount(c, end) ==
  LET c1 == [c EXCEPT !.Step = StepIncrement(c.Step)]
  IN /\ stepEnds' = Append(stepEnds, end)
     /\ counts' = NoCounts
     /\ voters' = {}
     /\ IF brpc = "count1"
        THEN /\ ctx' = IF c1.BlockHash = NilHash THEN [c1 EXCEPT !.BlockHash = startHash] ELSE c1
             /\ brpc' = "vote2"
             /\ brRet' = brRet
        ELSE IF c1.BlockHash = NilHash
        THEN /\ ctx' = [c1 EXCEPT !.BlockHash = emptyHash, !.BlockVotes = <<>>]
             /\ brpc' = "done"
             /\ brRet' = "nil"
        ELSE /\ ctx' = c1
             /\ brpc' = "agree"
             /\ brRet' = brRet

\* countVotesReduction: the step timer fires
StepTimeout ==
  /\ prog = "blockreduction"
  /\ brpc \in {"count1", "count2"}
  /\ AfterCount([ctx EXCEPT !.BlockHash = NilHash], "timeout")
  /\ brCall' = [op |-> "timer"]
  /\ UNCHANGED <<startHash, agreement, aggVars, prog, redVars, fnVars>>

NeverRecorded(pubKey, recorded) == FALSE

\* the search of voters for the sender of a message
AlreadyRecorded(pubKey, recorded) == pubKey \in recorded

\* countVotesReduction: a Reduction message m arrives; res is what processMsg
\* returns for it, voteErr whether NewVote fails
ReceiveReduction(m, res, voteErr) ==
  /\ prog = "blockreduction"
  /\ brpc \in {"count1", "count2"}
  /\ brCall' = [op |-> "ReductionChan", m |-> m]
  /\ IF AlreadyRecorded(m.PubKey, voters)
     THEN UNCHANGED <<brpc, ctx, counts, voters, brRet, stepEnds>>
     ELSE IF res.err
     THEN /\ brpc' = "done"
          /\ brRet' = "err"
          /\ counts' = NoCounts
          /\ voters' = {}
          /\ UNCHANGED <<ctx, stepEnds>>
     ELSE IF res.votes = 0 \/ ~res.valid
     THEN UNCHANGED <<brpc, ctx, counts, voters, brRet, stepEnds>>
     ELSE IF voteErr
     THEN /\ brpc' = "done"
          /\ brRet' = "err"
          /\ counts' = NoCounts
          /\ voters' = {}
          /\ UNCHANGED <<ctx, stepEnds>>
     ELSE LET all == Append(ctx.BlockVotes, NewVote(m.BlockHash, m.PubKey, ctx.Step))
              cut == CutVotes(all, m.BlockHash)
          IN IF counts[m.BlockHash] + res.votes >= VoteLimit
             THEN IF cut.panic
                  THEN /\ brpc' = "done"
                       /\ brRet' = "panic"
                       /\ counts' = NoCounts
                       /\ voters' = {}
                       /\ ctx' = [ctx EXCEPT !.BlockHash = m.BlockHash,
                                             !.BlockVotes = cut.votes]
                       /\ stepEnds' = stepEnds
                  ELSE AfterCount([ctx EXCEPT !.BlockHash = m.BlockHash,
                                              !.BlockVotes = cut.votes], "quorum")
             ELSE /\ voters' = voters \cup {m.PubKey}
                  /\ counts' = [counts EXCEPT ![m.BlockHash] = @ + res.votes]
                  /\ ctx' = [ctx EXCEPT !.BlockVotes = all]
                  /\ UNCHANGED <<brpc, brRet, stepEnds>>
  /\ UNCHANGED <<startHash, agreement, aggVars, prog, redVars, fnVars>>

\* BlockReduction: sendSetAgreement with the block votes, which may fail
SendSetAgreement(err) ==
  /\ prog = "blockreduction"
  /\ brpc = "agree"
  /\ agreement' = Append(agreement, ctx.BlockVotes)
  /\ brRet' = IF err THEN "err" ELSE "nil"
  /\ brpc' = "done"
  /\ brCall' = [op |-> "sendSetAgreement"]
  /\ UNCHANGED <<ctx, startHash, counts, voters, stepEnds, aggVars, prog, redVars, fnVars>>

\* ------------------------------------------------- both reduction drivers
InitReduction ==
  /\ InitAggregator
  /\ InitCallers
  /\ InitReducer
  /\ InitStepVotes
  /\ \/ prog = "reducer" /\ InitCandidates /\ InitContext(emptyHash)
     \/ /\ prog = "blockreduction"
        /\ candidates = [h \in Hashes \ {emptyHash} |-> "valid"]
        /\ \E h \in Hashes : InitContext(h)

NextReduction ==
  \/ CollectBestScore
  \/ \E e \in ReducerEvents : CollectReductionEvent(e)
  \/ TimerExpires
  \/ Finalize
  \/ BlockReductionStart
  \/ \E v \in 0..MaxVotes, err \in {"none", "sortition", "send"} : committeeVoteReduction(v, err)
  \/ StepTimeout
  \/ \E m \in BlockReductionMsgs, res \in ProcessResults, voteErr \in BOOLEAN :
       ReceiveReduction(m, res, voteErr)
  \/ \E err \in BOOLEAN : SendSetAgreement(err)

SpecReduction == InitReduction /\ [][NextReduction]_vars

\* ------------------------------------------------- StepVotes.Add, called directly
\* the arguments Add is called with: any bytes for the signature and the sender
AddArgs == [signature : Keys \cup {BadBytes}, sender : Keys \cup {BadBytes}, step : Steps]

\* one call of stepVotes.Add
AddVote(a) ==
  /\ prog = "add"
  /\ addCalls < MaxAdds
  /\ LET r == Add(stepVotes, a.signature, a.sender, a.step)
     IN /\ stepVotes' = r.sv
        /\ addErr' = r.err
  /\ lastAdd' = a
  /\ addCalls' = addCalls + 1
  /\ UNCHANGED <<aggVars, prog, redVars, brVars, agrVars, wireVars, moreVars>>

InitAdd ==
  /\ InitAggregator
  /\ InitCallers
  /\ candidates = [h \in Hashes \ {emptyHash} |-> "valid"]
  /\ InitReducer
  /\ InitContext(emptyHash)
  /\ InitStepVotes
  /\ prog = "add"

NextAdd == \E a \in AddArgs : AddVote(a)

SpecAdd == InitAdd /\ [][NextAdd]_vars

\* ------------------------------------------------- agreement handler
\* a BLS signature over a vote: who signed (an aggregate of signers) and the
\* signable vote (round, step, block hash) it was made over
SignatureOver(signers, round, step, hash) ==
  [signers |-> signers, round |-> round, step |-> step, hash |-> hash]

\* the aggregate of one key or signer
Single(k) == [j \in Keys |-> IF j = k THEN 1 ELSE 0]

\* the aggregate of each key of a set once
AggregateOf(set) == [j \in Keys |-> IF j \in set THEN 1 ELSE 0]

\* msg.VerifyBLSSignature of the header's signable vote
verifyWhole(a) ==
  a.signedVotes = SignatureOver(Single(a.sender), a.round, a.step, a.hash)

\* ReconstructApk: the aggregate of the keys of a subcommittee, an error if
\* the subcommittee is empty
ReconstructApk(subcommittee) ==
  IF subcommittee = {} THEN [apk |-> NilAggregate, err |-> TRUE]
  ELSE [apk |-> AggregateOf(subcommittee), err |-> FALSE]

\* header.VerifySignatures: the aggregated signature is valid for apk over
\* the signable vote of (round, step, hash)
VerifySignatures(round, step, hash, apk, sig) ==
  sig = SignatureOver(apk, round, step, hash)

\* the step handler.Verify computes for VotesPerStep[i], i from 0, in uint8
VerifyStep(hdrStep, i) == (hdrStep + 255 + i) % 256

\* the step handler.getVoterKeys computes for VotesPerStep[i], in uint8
VoterKeysStep(hdrStep, i) == (hdrStep + 254 + i) % 256

MultisigNeverFails(round, step, hash, apk, sig) == FALSE

\* the test of header.VerifySignatures in handler.Verify: TRUE iff it fails
MultisigFails(round, step, hash, apk, sig) == ~VerifySignatures(round, step, hash, apk, sig)

NeverTooFew(allVoters, round) == FALSE

\* the final test of handler.Verify
TooFewVoters(allVoters, round) == allVoters < Quorum(round)

\* the loop of handler.Verify from VotesPerStep[i] on, and its final test
RECURSIVE VerifyVotes(_, _, _)
VerifyVotes(a, i, allVoters) ==
  IF i = Len(a.VotesPerStep)
  THEN IF TooFewVoters(allVoters, a.round) THEN "vote set too small" ELSE "nil"
  ELSE LET step == VerifyStep(a.step, i)
           votes == a.VotesPerStep[i + 1]
           subcommittee == IntersectCluster(Committee(a.round, step), votes.BitSet)
           r == ReconstructApk(ClusterSet(subcommittee))
       IN IF step = MaxInt8 THEN "step reached max limit"
          ELSE IF r.err THEN "failed to reconstruct APK"
          ELSE IF MultisigFails(a.round, step, a.hash, r.apk, votes.Signature)
          THEN "failed to verify BLS multisig"
          ELSE VerifyVotes(a, i + 1, allVoters + TotalOccurrences(subcommittee))

\* handler.Verify: "nil" or the error
Verify(a) ==
  IF ~verifyWhole(a) THEN "failed to verify Agreement Sender"
  ELSE VerifyVotes(a, 0, 0)

\* sortedset.Cluster.Unravel: the keys of the cluster from key k on, in order,
\* each as often as it occurs
RECURSIVE UnravelFrom(_, _)
UnravelFrom(c, k) ==
  IF k > NProvisioners THEN <<>>
  ELSE [j \in 1..c[k] |-> k] \o UnravelFrom(c, k + 1)

Unravel(c) == UnravelFrom(c, 1)

\* handler.getVoterKeys from VotesPerStep[i] on, keys holding the keys so far
RECURSIVE VoterKeysFrom(_, _, _)
VoterKeysFrom(a, i, keys) ==
  IF i = Len(a.VotesPerStep) THEN [keys |-> keys, err |-> "nil"]
  ELSE LET step == VoterKeysStep(a.step, i)
           subcommittee == IntersectCluster(Committee(a.round, step), a.VotesPerStep[i + 1].BitSet)
       IN IF step >= MaxInt8 THEN [keys |-> <<>>, err |-> "step reached max limit"]
          ELSE VoterKeysFrom(a, i + 1, keys \o Unravel(subcommittee))

getVoterKeys(a) == VoterKeysFrom(a, 0, <<>>)

\* the header steps of the Agreements handled
AgreementSteps == {0, 2, 128}

\* the StepVotes an Agreement of (round, hdrStep, hash) may carry at index i:
\* any bitset over the committee of the step Verify computes, with the
\* aggregated signature of any set of members of that committee, made over
\* that step or over the header's step
AgreementVotes(round, hdrStep, hash, i) ==
  LET members == ClusterSet(Committee(round, VerifyStep(hdrStep, i)))
  IN {[Apk |-> AggregateOf(signers),
       BitSet |-> Bits(Committee(round, VerifyStep(hdrStep, i)), selected),
       Signature |-> SignatureOver(AggregateOf(signers), round, signedStep, hash),
       Step |-> signedStep] :
        selected \in SUBSET members, signers \in SUBSET members,
        signedStep \in {VerifyStep(hdrStep, i), hdrStep}}

\* the Agreements handled: one sender, whose signature over the header is
\* its own or another key's
Agreements ==
  UNION {[sender : {1}, round : {round}, step : {hdrStep}, hash : {hash},
          signedVotes : {SignatureOver(Single(signer), round, hdrStep, hash) : signer \in {1, 2}},
          VotesPerStep : {<<v0, v1>> : v0 \in AgreementVotes(round, hdrStep, hash, 0),
                                       v1 \in AgreementVotes(round, hdrStep, hash, 1)}] :
           round \in Rounds, hdrStep \in AgreementSteps, hash \in {1}}

\* handler.Verify is called with an Agreement
VerifyAgreement ==
  /\ prog = "agreement"
  /\ agr = NoAgreement
  /\ \E a \in Agreements :
       /\ agr' = a
       /\ verifyErr' = Verify(a)
  /\ UNCHANGED <<voterKeys, addVars, wireVars, moreVars, aggVars, prog, redVars, brVars>>

\* handler.getVoterKeys is called with an Agreement
GetVoterKeys ==
  /\ prog = "agreement"
  /\ agr = NoAgreement
  /\ \E a \in Agreements :
       /\ agr' = a
       /\ voterKeys' = getVoterKeys(a)
  /\ UNCHANGED <<verifyErr, addVars, wireVars, moreVars, aggVars, prog, redVars, brVars>>

InitAgreementHandler ==
  /\ InitAggregator
  /\ InitCallers
  /\ candidates = [h \in Hashes \ {emptyHash} |-> "valid"]
  /\ InitReducer
  /\ InitContext(emptyHash)
  /\ InitStepVotes
  /\ prog = "agreement"

NextAgreement ==
  \/ VerifyAgreement
  \/ GetVoterKeys

SpecAgreement == InitAgreementHandler /\ [][NextAgreement]_vars

\* ------------------------------------------------- marshalling of Agreements
\* a bytes.Buffer is the sequence of the fields written to it
VarInt(n) == [kind |-> "varint", val |-> <<n>>]

VarBytes(apk) == [kind |-> "varbytes", val |-> apk]

Uint64LE(n) == [kind |-> "uint64", val |-> <<n>>]

BLS(sig) == [kind |-> "bls", val |-> sig]

\* a *StepVotes: <<>> is the nil pointer
NilPointer == <<>>

\* the test MarshalStepVotes opens with
InvalidStepVotes(vote) ==
  vote = NilPointer \/ vote[1].Apk = NilAggregate \/ vote[1].Signature = NilAggregate

\* MarshalStepVotes: the buffer after the call and the error
MarshalStepVotes(r, vote) ==
  IF InvalidStepVotes(vote) THEN [buf |-> r, err |-> "invalid stepVotes"]
  ELSE [buf |-> r \o <<VarBytes(vote[1].Apk), Uint64LE(vote[1].BitSet), BLS(vote[1].Signature)>>,
        err |-> "nil"]

\* the loop of MarshalVotes from votes[i] on
RECURSIVE MarshalVotesFrom(_, _, _)
MarshalVotesFrom(r, votes, i) ==
  IF i > Len(votes) THEN [buf |-> r, err |-> "nil"]
  ELSE LET m == MarshalStepVotes(r, votes[i])
       IN IF m.err # "nil" THEN m ELSE MarshalVotesFrom(m.buf, votes, i + 1)

MarshalVotes(r, votes) == MarshalVotesFrom(r \o <<VarInt(Len(votes))>>, votes, 1)

\* reading one field of the given kind: the value, the rest of the buffer and
\* whether the read failed
Read(r, kind) ==
  IF r = <<>> \/ r[1].kind # kind THEN [val |-> <<>>, rest |-> r, err |-> TRUE]
  ELSE [val |-> r[1].val, rest |-> Tail(r), err |-> FALSE]

\* UnmarshalStepVotes: a pointer to the StepVotes read, the rest of the
\* buffer and the error
UnmarshalStepVotes(r) ==
  LET apk == Read(r, "varbytes")
      bitSet == Read(apk.rest, "uint64")
      sig == Read(bitSet.rest, "bls")
  IN IF apk.err \/ apk.val = NilAggregate \/ bitSet.err \/ sig.err \/ sig.val = NilAggregate
     THEN [sv |-> NilPointer, rest |-> r, err |-> "read failed"]
     ELSE [sv |-> <<[NewStepVotes EXCEPT !.Apk = apk.val, !.BitSet = bitSet.val[1],
                                         !.Signature = sig.val]>>,
           rest |-> sig.rest, err |-> "nil"]

AnyLength(length) == FALSE

\* the length test of UnmarshalVotes
MalformedLength(length) == length # 2

\* the loop of UnmarshalVotes from index i (from 0) on; votes has two slots
RECURSIVE UnmarshalVotesFrom(_, _, _, _)
UnmarshalVotesFrom(r, votes, i, length) ==
  IF i = length THEN [votes |-> votes, err |-> "nil"]
  ELSE LET u == UnmarshalStepVotes(r)
       IN IF u.err # "nil" THEN [votes |-> votes, err |-> u.err]
          ELSE IF i + 1 > Len(votes) THEN [votes |-> votes, err |-> "panic"]
          ELSE UnmarshalVotesFrom(u.rest, [votes EXCEPT ![i + 1] = u.sv], i + 1, length)

UnmarshalVotes(r, votes) ==
  LET length == Read(r, "varint")
  IN IF length.err THEN [votes |-> votes, err |-> "read failed"]
     ELSE IF MalformedLength(length.val[1])
     THEN [votes |-> votes, err |-> "malformed Agreement message"]
     ELSE UnmarshalVotesFrom(length.rest, votes, 0, length.val[1])

\* UnmarshalAgreement: the fields it has set in the Agreement and the error
UnmarshalAgreement(r, a) ==
  LET signedVotes == Read(r, "bls")
  IN IF signedVotes.err THEN [a |-> a, err |-> "read failed"]
     ELSE LET a1 == [a EXCEPT !.signedVotes = <<signedVotes.val>>]
              u == UnmarshalVotes(signedVotes.rest, <<NilPointer, NilPointer>>)
          IN IF u.err # "nil" THEN [a |-> a1, err |-> u.err]
             ELSE [a |-> [a1 EXCEPT !.VotesPerStep = u.votes], err |-> "nil"]

\* the StepVotes handed to MarshalVotes: nil, empty, with a key but no
\* signature, and with key and signature
MarshalledPointers ==
  {NilPointer, <<NewStepVotes>>,
   <<[NewStepVotes EXCEPT !.Apk = Single(1), !.Step = 1]>>,
   <<[NewStepVotes EXCEPT !.Apk = Single(1), !.Signature = Single(1), !.BitSet = 1, !.Step = 1]>>}

RECURSIVE SeqsUpTo(_, _)
SeqsUpTo(S, n) ==
  IF n = 0 THEN {<<>>}
  ELSE LET shorter == SeqsUpTo(S, n - 1)
       IN shorter \cup {Append(q, x) : q \in shorter, x \in S}

\* the buffers UnmarshalAgreement reads: a signature, a list length and the
\* encodings of some StepVotes, as many as announced or not
WireBuffers ==
  {<<BLS(Single(1)), VarInt(n)>> \o MarshalVotesFrom(<<>>, votes, 1).buf :
     n \in 0..MaxListLen,
     votes \in SeqsUpTo({<<[NewStepVotes EXCEPT !.Apk = Single(k), !.Signature = Single(k),
                                                !.BitSet = 1]>> : k \in {1, 2}},
                        MaxListLen)}

\* MarshalVotes is called on an empty buffer
MarshalCall ==
  /\ prog = "wire"
  /\ wireOp = "none"
  /\ \E votes \in SeqsUpTo(MarshalledPointers, MaxListLen) :
       LET m == MarshalVotes(<<>>, votes)
       IN /\ votesIn' = votes
          /\ buffer' = m.buf
          /\ wireErr' = m.err
  /\ wireOp' = "marshal"
  /\ UNCHANGED <<decoded, addVars, agrVars, moreVars, aggVars, prog, redVars, brVars>>

\* UnmarshalAgreement is called on a buffer and a new Agreement
UnmarshalCall ==
  /\ prog = "wire"
  /\ wireOp = "none"
  /\ \E r \in WireBuffers :
       LET u == UnmarshalAgreement(r, NoDecoded)
       IN /\ buffer' = r
          /\ decoded' = u.a
          /\ wireErr' = u.err
  /\ wireOp' = "unmarshal"
  /\ UNCHANGED <<votesIn, addVars, agrVars, moreVars, aggVars, prog, redVars, brVars>>

\* MarshalAgreement after the header: the signed votes, then the votes
MarshalAgreement(r, a) ==
  MarshalVotes(r \o <<BLS(a.signedVotes[1])>>, a.VotesPerStep)

\* the StepVotes of a well-formed Agreement: key and signature aggregated by
\* Add at some step
WellFormedStepVotes ==
  {<<[Apk |-> Single(k), BitSet |-> b, Signature |-> Single(k), Step |-> st]>> :
     k \in {1, 2}, b \in {1, 2}, st \in {0} \cup Steps}

\* a well-formed Agreement is marshalled and the buffer unmarshalled into a
\* new Agreement
RoundTripCall ==
  /\ prog = "wire"
  /\ wireOp = "none"
  /\ \E sv1 \in WellFormedStepVotes, sv2 \in WellFormedStepVotes :
       LET a == [signedVotes |-> <<Single(1)>>, VotesPerStep |-> <<sv1, sv2>>]
           m == MarshalAgreement(<<>>, a)
           u == UnmarshalAgreement(m.buf, NoDecoded)
       IN /\ votesIn' = a.VotesPerStep
          /\ buffer' = m.buf
          /\ decoded' = u.a
          /\ wireErr' = IF m.err # "nil" THEN m.err ELSE u.err
  /\ wireOp' = "roundtrip"
  /\ UNCHANGED <<addVars, agrVars, moreVars, aggVars, prog, redVars, brVars>>

InitMarshalling ==
  /\ InitAggregator
  /\ InitCallers
  /\ candidates = [h \in Hashes \ {emptyHash} |-> "valid"]
  /\ InitReducer
  /\ InitContext(emptyHash)
  /\ InitStepVotes
  /\ prog = "wire"

NextMarshalling ==
  \/ MarshalCall
  \/ UnmarshalCall
  \/ RoundTripCall

SpecMarshalling == InitMarshalling /\ [][NextMarshalling]_vars

\* ------------------------------------------------- agreement component
\* the verified agreement events of the round: a sender, and the step and
\* block hash it agrees on
AgreementEvents == {[sender |-> k, key |-> key] : k \in Keys, key \in LoopKeys}

KeepsRunning(state) == state

\* the component's state once a final result is received: it returns the
\* winning block and stops running
AfterResult(state) == "returned"

\* collectEvent: an event from the agreementChan (or flushed from the queue)
\* is sent off to the Accumulator
collectEvent ==
  /\ prog = "loop"
  /\ loopState = "running"
  /\ \E e \in AgreementEvents :
       /\ e \notin accQueue
       /\ e.sender \notin accStore[e.key]
       /\ accQueue' = accQueue \cup {e}
  /\ UNCHANGED <<loopState, accStore, collectedVotesChan, winners>>
  /\ UNCHANGED <<aggVars, prog, redVars, brVars, addVars, agrVars, wireVars, provVars, restVars>>

\* a worker of the Accumulator stores an event and, when its step reaches
\* quorum, sends the collected votes back on the CollectedVotesChan
Accumulate ==
  /\ prog = "loop"
  /\ accQueue # {}
  /\ \E e \in accQueue :
       LET seen == accStore[e.key] \cup {e.sender}
       IN /\ accQueue' = accQueue \ {e}
          /\ accStore' = [accStore EXCEPT ![e.key] = seen]
          /\ collectedVotesChan' =
               IF e.sender \notin accStore[e.key] /\ Cardinality(seen) = Quorum(1)
               THEN Append(collectedVotesChan, e.key)
               ELSE collectedVotesChan
  /\ UNCHANGED <<loopState, winners>>
  /\ UNCHANGED <<aggVars, prog, redVars, brVars, addVars, agrVars, wireVars, provVars, restVars>>

\* the component receives a final result: the block of the resulting hash is
\* returned as winner and the component stops running
ReceiveCollectedVotes ==
  /\ prog = "loop"
  /\ loopState = "running"
  /\ collectedVotesChan # <<>>
  /\ winners' = Append(winners, Head(collectedVotesChan).hash)
  /\ collectedVotesChan' = Tail(collectedVotesChan)
  /\ loopState' = AfterResult(loopState)
  /\ UNCHANGED <<accQueue, accStore>>
  /\ UNCHANGED <<aggVars, prog, redVars, brVars, addVars, agrVars, wireVars, provVars, restVars>>

\* ctx.Done: the context is cancelled, the component stops without a winner
ContextDone ==
  /\ prog = "loop"
  /\ loopState = "running"
  /\ loopState' = "cancelled"
  /\ UNCHANGED <<accQueue, accStore, collectedVotesChan, winners>>
  /\ UNCHANGED <<aggVars, prog, redVars, brVars, addVars, agrVars, wireVars, provVars, restVars>>

InitAgreementLoop ==
  /\ InitAggregator
  /\ InitCallers
  /\ candidates = [h \in Hashes \ {emptyHash} |-> "valid"]
  /\ InitReducer
  /\ InitContext(emptyHash)
  /\ InitStepVotes
  /\ prog = "loop"

NextAgreementLoop ==
  \/ collectEvent
  \/ Accumulate
  \/ ReceiveCollectedVotes
  \/ ContextDone

SpecAgreementLoop == InitAgreementLoop /\ [][NextAgreementLoop]_vars

\* ------------------------------------------------- user.Provisioners
\* a byte string: the number of its leading zero bytes, then the number of
\* bytes after them and which bytes those are
Bytes(zeros, n, v) == [zeros |-> zeros, digits |-> [n |-> n, v |-> v]]

ByteLen(b) == b.zeros + b.digits.n

\* big.Int.SetBytes: the number the bytes spell, leading zero bytes dropped
SetBytes(b) == b.digits

\* big.Int.Bytes: the shortest byte string that spells the number
BigBytes(n) == [zeros |-> 0, digits |-> n]

\* the length of a BLS public key
PubKeyLen == 129

\* the keys of the modelled members: two BLS public keys
MemberKeys == {Bytes(0, PubKeyLen, 1), Bytes(0, PubKeyLen, 2)}

\* the keys handed to the functions: the members' keys, a short key, the
\* same short key after one zero byte, and a key of the length of a BLS
\* public key that starts with a zero byte
PubKeys == MemberKeys \cup {Bytes(0, 1, 1), Bytes(1, 1, 1), Bytes(1, PubKeyLen - 1, 1)}

ProvRounds == {1, 2}

\* the StartHeight and EndHeight of the modelled stakes: expired before the
\* modelled rounds, active at round 1, at both, and from round 2 on
StakeSpans == {<<0, 0>>, <<1, 1>>, <<1, 2>>, <<2, 3>>}

Stakes ==
  {[Amount |-> a, StartHeight |-> sp[1], EndHeight |-> sp[2]] :
     a \in 0..MaxAmount, sp \in StakeSpans}

StakeNeverSmaller(stake, amount) == FALSE

\* the test of SubtractFromStake on the first non-zero stake
StakeSmaller(stake, amount) == stake.Amount < amount

\* Member.SubtractFromStake, the loop from Stakes[i] on: the stakes after
\* the call and the amount returned
RECURSIVE SubtractFrom(_, _, _)
SubtractFrom(stakes, amount, i) ==
  IF i > Len(stakes) THEN [Stakes |-> stakes, ret |-> 0]
  ELSE IF stakes[i].Amount > 0
       THEN IF StakeSmaller(stakes[i], amount)
            THEN [Stakes |-> [stakes EXCEPT ![i].Amount = 0], ret |-> stakes[i].Amount]
            ELSE [Stakes |-> [stakes EXCEPT ![i].Amount = @ - amount], ret |-> amount]
       ELSE SubtractFrom(stakes, amount, i + 1)

SubtractFromStake(stakes, amount) == SubtractFrom(stakes, amount, 1)

\* the sum of the amounts of a list of stakes
RECURSIVE SumAmounts(_)
SumAmounts(stakes) ==
  IF stakes = <<>> THEN 0 ELSE Head(stakes).Amount + SumAmounts(Tail(stakes))

AnyKeyLength(pubKeyBLS) == FALSE

\* the length test GetStake opens with
WrongKeyLength(pubKeyBLS) == ByteLen(pubKeyBLS) # PubKeyLen

\* Provisioners.GetStake: the stake and the error
GetStake(p, pubKeyBLS) ==
  IF WrongKeyLength(pubKeyBLS) THEN [stake |-> 0, err |-> "wrong length"]
  ELSE IF pubKeyBLS \notin DOMAIN p.Members THEN [stake |-> 0, err |-> "not found"]
  ELSE [stake |-> SumAmounts(p.Members[pubKeyBLS]), err |-> "nil"]

\* Provisioners.TotalWeight: the sum of all stakes of all members
RECURSIVE TotalWeightOver(_, _)
TotalWeightOver(members, keys) ==
  IF keys = {} THEN 0
  ELSE LET k == CHOOSE x \in keys : TRUE
       IN SumAmounts(members[k]) + TotalWeightOver(members, keys \ {k})

TotalWeight(p) == TotalWeightOver(p.Members, DOMAIN p.Members)

\* Provisioners.MemberAt for an index within the Set: the member found under
\* the bytes of the Set's number, <<>> if there is none
MemberOf(p, bigI) ==
  IF BigBytes(bigI) \in DOMAIN p.Members THEN <<p.Members[BigBytes(bigI)]>> ELSE <<>>

\* the order of the numbers of a Set: a number of more bytes is larger
BigLess(a, b) == a.n < b.n \/ (a.n = b.n /\ a.v < b.v)

\* the Set as the sorted slice it is kept as
RECURSIVE SortedSet(_)
SortedSet(S) ==
  IF S = {} THEN <<>>
  ELSE LET least == CHOOSE a \in S : \A b \in S \ {a} : BigLess(a, b)
       IN <<least>> \o SortedSet(S \ {least})

\* Provisioners.MemberAt; i counts from 0. Indexing the Set at its length
\* is a run-time panic
MemberAt(p, i) ==
  IF i > Cardinality(p.Set)
  THEN [member |-> <<>>, err |-> "index out of bound", panic |-> FALSE]
  ELSE IF i >= Cardinality(p.Set)
  THEN [member |-> <<>>, err |-> "nil", panic |-> TRUE]
  ELSE [member |-> MemberOf(p, SortedSet(p.Set)[i + 1]), err |-> "nil", panic |-> FALSE]

\* unmarshalStake: three uint64
unmarshalStake(r) ==
  LET amount == Read(r, "uint64")
      start == Read(amount.rest, "uint64")
      end == Read(start.rest, "uint64")
  IN IF amount.err \/ start.err \/ end.err
     THEN [stake |-> <<>>, rest |-> r, err |-> TRUE]
     ELSE [stake |-> [Amount |-> amount.val[1], StartHeight |-> start.val[1],
                      EndHeight |-> end.val[1]],
           rest |-> end.rest, err |-> FALSE]

\* the stake loop of unmarshalMember
RECURSIVE unmarshalStakes(_, _, _)
unmarshalStakes(r, stakes, n) ==
  IF n = 0 THEN [stakes |-> stakes, rest |-> r, err |-> FALSE]
  ELSE LET u == unmarshalStake(r)
       IN IF u.err THEN [stakes |-> stakes, rest |-> r, err |-> TRUE]
          ELSE unmarshalStakes(u.rest, Append(stakes, u.stake), n - 1)

unmarshalMember(r) ==
  LET key == Read(r, "varbytes")
      lStakes == Read(key.rest, "varint")
  IN IF key.err \/ lStakes.err THEN [member |-> <<>>, rest |-> r, err |-> TRUE]
     ELSE LET u == unmarshalStakes(lStakes.rest, <<>>, lStakes.val[1])
          IN IF u.err THEN [member |-> <<>>, rest |-> r, err |-> TRUE]
             ELSE [member |-> [PublicKeyBLS |-> key.val, Stakes |-> u.stakes],
                   rest |-> u.rest, err |-> FALSE]

\* the member loop of UnmarshalProvisioners
RECURSIVE unmarshalMembers(_, _, _)
unmarshalMembers(r, members, n) ==
  IF n = 0 THEN [members |-> members, err |-> FALSE]
  ELSE LET u == unmarshalMember(r)
       IN IF u.err THEN [members |-> members, err |-> TRUE]
          ELSE unmarshalMembers(u.rest, Append(members, u.member), n - 1)

\* the Set and the map rebuilt from the members read: Set.Insert keeps the
\* number of the key bytes, the map is keyed by the bytes themselves and a
\* later member replaces an earlier one of the same key
RECURSIVE Reconstruct(_, _, _)
Reconstruct(members, i, p) ==
  IF i > Len(members) THEN p
  ELSE LET m == members[i]
           keys == (DOMAIN p.Members) \cup {m.PublicKeyBLS}
       IN Reconstruct(members, i + 1,
            [Set |-> p.Set \cup {SetBytes(m.PublicKeyBLS)},
             Members |-> [k \in keys |-> IF k = m.PublicKeyBLS THEN m.Stakes
                                         ELSE p.Members[k]]])

\* UnmarshalProvisioners: the Provisioners and the error
UnmarshalProvisioners(r) ==
  LET lMembers == Read(r, "varint")
  IN IF lMembers.err THEN [p |-> NewProvisioners, err |-> TRUE]
     ELSE LET u == unmarshalMembers(lMembers.rest, <<>>, lMembers.val[1])
          IN IF u.err THEN [p |-> NewProvisioners, err |-> TRUE]
             ELSE [p |-> Reconstruct(u.members, 1, NewProvisioners), err |-> FALSE]

\* the bytes of one member on the wire
RECURSIVE StakeBytes(_)
StakeBytes(stakes) ==
  IF stakes = <<>> THEN <<>>
  ELSE <<Uint64LE(Head(stakes).Amount), Uint64LE(Head(stakes).StartHeight),
         Uint64LE(Head(stakes).EndHeight)>> \o StakeBytes(Tail(stakes))

MemberBytes(m) ==
  <<VarBytes(m.PublicKeyBLS), VarInt(Len(m.Stakes))>> \o StakeBytes(m.Stakes)

RECURSIVE MembersBytes(_)
MembersBytes(members) ==
  IF members = <<>> THEN <<>>
  ELSE MemberBytes(Head(members)) \o MembersBytes(Tail(members))

\* the members found in the buffers UnmarshalProvisioners reads
WireMembers ==
  {[PublicKeyBLS |-> k, Stakes |-> st] :
     k \in PubKeys,
     st \in {<<>>, <<[Amount |-> 1, StartHeight |-> 1, EndHeight |-> 2]>>}}

\* the buffers UnmarshalProvisioners reads: a member count and the bytes of
\* some members, as many as announced or not
ProvisionerBuffers ==
  {<<VarInt(n)>> \o MembersBytes(members) :
     n \in 0..MaxStakes, members \in SeqsUpTo(WireMembers, MaxStakes)}

\* the stakes one member can hold
StakeLists == SeqsUpTo(Stakes, MaxStakes)

\* the provisioner sets the functions are called on: the first member with
\* any stakes, the second absent or with one stake
ProvisionerSets ==
  {NewProvisioners} \cup
  {[Set |-> {SetBytes(k) : k \in keys},
    Members |-> [k \in keys |-> IF k = Bytes(0, PubKeyLen, 1) THEN st ELSE <<other>>]] :
     keys \in {{Bytes(0, PubKeyLen, 1)}, MemberKeys},
     st \in StakeLists,
     other \in {[Amount |-> 1, StartHeight |-> 0, EndHeight |-> 0],
                [Amount |-> 2, StartHeight |-> 1, EndHeight |-> 2]}}

\* Member.SubtractFromStake is called on a member of the set
SubtractFromStakeCall ==
  /\ prog = "provisioners"
  /\ provCall = NoCall
  /\ \E k \in DOMAIN provisioners.Members, amount \in 0..(MaxAmount + 1) :
       LET r == SubtractFromStake(provisioners.Members[k], amount)
       IN /\ provCall' = [op |-> "SubtractFromStake", key |-> k, amount |-> amount]
          /\ provisioners' = [provisioners EXCEPT !.Members[k] = r.Stakes]
          /\ provRet' = <<r.ret>>
  /\ UNCHANGED <<aggVars, prog, redVars, brVars, addVars, agrVars, wireVars, loopVars, restVars>>

\* GetStake is called on the set, as given or as just unmarshalled
GetStakeCall ==
  /\ prog = "provisioners"
  /\ provCall.op \in {"none", "UnmarshalProvisioners"}
  /\ \E k \in PubKeys :
       /\ provCall' = [op |-> "GetStake", key |-> k]
       /\ provRet' = <<GetStake(provisioners, k)>>
  /\ UNCHANGED provisioners
  /\ UNCHANGED <<aggVars, prog, redVars, brVars, addVars, agrVars, wireVars, loopVars, restVars>>

\* MemberAt is called on the set, as given or as just unmarshalled, with
\* an index up to one past its length
MemberAtCall ==
  /\ prog = "provisioners"
  /\ provCall.op \in {"none", "UnmarshalProvisioners"}
  /\ \E i \in 0..(Cardinality(provisioners.Set) + 1) :
       /\ provCall' = [op |-> "MemberAt", i |-> i]
       /\ provRet' = <<MemberAt(provisioners, i)>>
  /\ UNCHANGED provisioners
  /\ UNCHANGED <<aggVars, prog, redVars, brVars, addVars, agrVars, wireVars, loopVars, restVars>>

SubsetSizeAtCall ==
  /\ prog = "provisioners"
  /\ provCall = NoCall
  /\ \E round \in ProvRounds :
       /\ provCall' = [op |-> "SubsetSizeAt", round |-> round]
       /\ provRet' = <<SubsetSizeAt(provisioners.Members, round)>>
  /\ UNCHANGED provisioners
  /\ UNCHANGED <<aggVars, prog, redVars, brVars, addVars, agrVars, wireVars, loopVars, restVars>>

\* TotalWeight is called while the consensus is at a round
TotalWeightCall ==
  /\ prog = "provisioners"
  /\ provCall = NoCall
  /\ \E round \in ProvRounds :
       /\ provCall' = [op |-> "TotalWeight", round |-> round]
       /\ provRet' = <<TotalWeight(provisioners)>>
  /\ UNCHANGED provisioners
  /\ UNCHANGED <<aggVars, prog, redVars, brVars, addVars, agrVars, wireVars, loopVars, restVars>>

UnmarshalProvisionersCall ==
  /\ prog = "provisioners"
  /\ provCall = NoCall
  /\ provisioners = NewProvisioners
  /\ \E r \in ProvisionerBuffers :
       LET u == UnmarshalProvisioners(r)
       IN /\ provCall' = [op |-> "UnmarshalProvisioners", r |-> r]
          /\ provisioners' = u.p
          /\ provRet' = <<u.err>>
  /\ UNCHANGED <<aggVars, prog, redVars, brVars, addVars, agrVars, wireVars, loopVars, restVars>>

InitProvisioners ==
  /\ InitAggregator
  /\ InitCallers
  /\ candidates = [h \in Hashes \ {emptyHash} |-> "valid"]
  /\ InitReducer
  /\ InitContext(emptyHash)
  /\ stepVotes = NewStepVotes
  /\ lastAdd = NoAdd
  /\ addErr = FALSE
  /\ addCalls = 0
  /\ InitAgreement
  /\ InitWire
  /\ InitLoop
  /\ provisioners \in ProvisionerSets
  /\ InitProvisionerCalls
  /\ InitRest
  /\ prog = "provisioners"

NextProvisioners ==
  \/ SubtractFromStakeCall
  \/ GetStakeCall
  \/ MemberAtCall
  \/ SubsetSizeAtCall
  \/ TotalWeightCall
  \/ UnmarshalProvisionersCall

SpecProvisioners == InitProvisioners /\ [][NextProvisioners]_vars

\* ------------------------------------------------- signing of Reduction votes
\* a byte string as the sequence of its fields
HashBytes(hash) == <<hash>>

\* MarshalSignableVote: round, step and block hash, the sender key left out
MarshalSignableVote(vote) == <<vote.Round, vote.Step, vote.BlockHash>>

\* bls.Sign: a signature is its signer and the message signed
blsSign(key, msg) == [signer |-> key, msg |-> msg]

\* bls.Verify: TRUE iff sig is the signature of pk over msg
blsVerify(pk, msg, sig) == sig = blsSign(pk, msg)

\* SignReductionEvent: the event with SignedHash and PubKeyBLS filled in; the
\* signable vote is marshalled into a buffer, the signature is made over
\* ev.VotedHash
SignReductionEvent(e, keys) ==
  LET vote == [Round |-> e.Round, Step |-> e.Step, BlockHash |-> e.VotedHash]
      buf == MarshalSignableVote(vote)
      signedHash == blsSign(keys, HashBytes(e.VotedHash))
  IN [e EXCEPT !.SignedHash = <<signedHash>>, !.PubKeyBLS = keys]

SignRounds == {1, 2}

\* the events the node signs
UnsignedReductions ==
  {[NewReduction EXCEPT !.Round = r, !.Step = st, !.VotedHash = h] :
     r \in SignRounds, st \in Steps, h \in Hashes}

SignReductionEventCall ==
  /\ prog = "signing"
  /\ reduction.SignedHash = <<>>
  /\ \E keys \in Keys : reduction' = SignReductionEvent(reduction, keys)
  /\ UNCHANGED voteCheck
  /\ UNCHANGED <<aggVars, prog, redVars, brVars, addVars, agrVars, wireVars, loopVars, provVars, syncVars, utilVars>>

\* the signature of the event is verified against its sender as a vote for
\* a round, a step and a block hash, over the signable vote bytes
VerifyVote ==
  /\ prog = "signing"
  /\ reduction.SignedHash # <<>>
  /\ voteCheck = NoCheck
  /\ \E r \in SignRounds, st \in Steps, h \in Hashes :
       voteCheck' =
         [done |-> TRUE, Round |-> r, Step |-> st, BlockHash |-> h,
          ok |-> blsVerify(reduction.PubKeyBLS,
                           MarshalSignableVote([Round |-> r, Step |-> st, BlockHash |-> h]),
                           reduction.SignedHash[1])]
  /\ UNCHANGED reduction
  /\ UNCHANGED <<aggVars, prog, redVars, brVars, addVars, agrVars, wireVars, loopVars, provVars, syncVars, utilVars>>

InitSignReduction ==
  /\ InitAggregator
  /\ InitCallers
  /\ candidates = [h \in Hashes \ {emptyHash} |-> "valid"]
  /\ InitReducer
  /\ InitContext(emptyHash)
  /\ stepVotes = NewStepVotes
  /\ lastAdd = NoAdd
  /\ addErr = FALSE
  /\ addCalls = 0
  /\ InitAgreement
  /\ InitWire
  /\ InitLoop
  /\ provisioners = NewProvisioners
  /\ InitProvisionerCalls
  /\ reduction \in UnsignedReductions
  /\ voteCheck = NoCheck
  /\ InitSynchronizer
  /\ InitUtils
  /\ highestSeen = 0
  /\ prog = "signing"

NextSignReduction ==
  \/ SignReductionEventCall
  \/ VerifyVote

SpecSignReduction == InitSignReduction /\ [][NextSignReduction]_vars

\* ------------------------------------------------- chain Synchronizer
\* config.MaxInvBlocks: the most blocks asked for in one sync
MaxInvBlocks == 2

\* the blocks received: a height and what tells two blocks of a height apart
Blocks == [Height : 1..MaxHeight, id : {1, 2}]

\* chain.CurrentHeight
CurrentHeight == Len(ledger)

\* the hash of the block at a height of the chain; the genesis block is at 0
BlockHashByHeight(h) == IF h = 0 THEN [Height |-> 0, id |-> 0] ELSE ledger[h]

\* createGetBlocksMsg and marshalGetBlocks: one buffer of the GetBlocks
\* topic, with the hash as its only locator
GetBlocksRequest(hash) == <<[topic |-> "GetBlocks", Locators |-> <<hash>>]>>

\* sequencer.add
SequencerAdd(pool, blk) ==
  [h \in (DOMAIN pool) \cup {blk.Height} |-> IF h = blk.Height THEN blk ELSE pool[h]]

\* sequencer.provideSuccessors: the block and the blocks of the pool at the
\* heights that follow it without a gap
RECURSIVE Successors(_, _)
Successors(pool, h) ==
  IF h \in DOMAIN pool THEN <<pool[h]>> \o Successors(pool, h + 1) ELSE <<>>

provideSuccessors(pool, blk) == <<blk>> \o Successors(pool, blk.Height + 1)

\* the pool after provideSuccessors: the blocks provided are taken out
PoolAfter(pool, blk) ==
  LET taken == {b.Height : b \in {Successors(pool, blk.Height + 1)[i] :
                                    i \in 1..Len(Successors(pool, blk.Height + 1))}}
  IN [h \in (DOMAIN pool) \ taken |-> pool[h]]

UncappedTarget(tipHeight, currentHeight) == tipHeight

\* startSync: the sync target
SyncTarget(tipHeight, currentHeight) ==
  IF tipHeight > currentHeight + MaxInvBlocks THEN currentHeight + MaxInvBlocks
  ELSE tipHeight

\* startSync: the response and the error; dbErr tells whether the hash of
\* the current block could not be fetched
startSync(currentHeight, dbErr) ==
  IF dbErr THEN [res |-> <<>>, err |-> "db"]
  ELSE [res |-> GetBlocksRequest(BlockHashByHeight(currentHeight)), err |-> "nil"]

AnyNewHeight(height, currentHeight) == height > currentHeight

\* the test inSync opens with: the block is from far in the future
FarInFuture(height, currentHeight) == height > currentHeight + 1

\* Synchronizer.inSync; the chain accepts the succeeding block or not
inSync(currentHeight, blk) ==
  IF FarInFuture(blk.Height, currentHeight)
  THEN \E dbErr \in BOOLEAN :
         LET b == startSync(currentHeight, dbErr)
         IN /\ blockPool' = SequencerAdd(blockPool, blk)
            /\ producing' = FALSE
            /\ syncTarget' = SyncTarget(blk.Height, currentHeight)
            /\ syncState' = "outSync"
            /\ syncRet' = <<b.res, b.err>>
            /\ UNCHANGED <<ledger, succeeding, produceStarting>>
  ELSE /\ succeeding' = <<blk>>
       /\ \E accepted \in BOOLEAN :
            ledger' = IF accepted THEN Append(ledger, blk) ELSE ledger
       /\ syncState' = "inSync"
       /\ syncRet' = <<<<>>, "nil">>
       /\ UNCHANGED <<blockPool, producing, syncTarget, produceStarting>>

\* the loop of outSync over blks from index i on; failAt is the index of the
\* block chain.ProcessSyncBlock refuses, 0 if it refuses none
RECURSIVE ProcessSyncBlocks(_, _, _, _)
ProcessSyncBlocks(blks, i, failAt, chain) ==
  IF i > Len(blks) THEN [ledger |-> chain, state |-> "outSync", err |-> "nil", produce |-> FALSE]
  ELSE IF i = failAt
       THEN [ledger |-> chain, state |-> "outSync", err |-> "sync block", produce |-> FALSE]
  ELSE IF blks[i].Height = syncTarget
       THEN [ledger |-> Append(chain, blks[i]), state |-> "inSync", err |-> "nil",
             produce |-> TRUE]
  ELSE ProcessSyncBlocks(blks, i + 1, failAt, Append(chain, blks[i]))

\* Synchronizer.outSync
outSync(currentHeight, blk) ==
  IF blk.Height > currentHeight + 1
  THEN /\ blockPool' = SequencerAdd(blockPool, blk)
       /\ syncRet' = <<<<>>, "nil">>
       /\ UNCHANGED <<syncState, ledger, producing, succeeding, syncTarget, produceStarting>>
  ELSE \E failAt \in 0..Len(provideSuccessors(blockPool, blk)) :
       LET r == ProcessSyncBlocks(provideSuccessors(blockPool, blk), 1, failAt, ledger)
       IN /\ blockPool' = PoolAfter(blockPool, blk)
          /\ ledger' = r.ledger
          /\ syncState' = r.state
          /\ produceStarting' = IF r.produce THEN TRUE ELSE produceStarting
          /\ syncRet' = <<<<>>, r.err>>
          /\ UNCHANGED <<producing, succeeding, syncTarget>>

NeverFromThePast(height, currentHeight) == FALSE

\* the test ProcessBlock opens with: the block is not above the chain
FromThePast(height, currentHeight) == height <= currentHeight

\* Synchronizer.ProcessBlock
ProcessBlock ==
  /\ prog = "synchronizer"
  /\ \E blk \in Blocks :
       /\ syncCall' = [op |-> "ProcessBlock", blk |-> blk]
       /\ IF FromThePast(blk.Height, CurrentHeight)
          THEN /\ syncRet' = <<<<>>, "nil">>
               /\ UNCHANGED <<syncState, ledger, syncTarget, blockPool, producing, succeeding, produceStarting>>
          ELSE IF syncState = "inSync"
               THEN inSync(CurrentHeight, blk)
               ELSE outSync(CurrentHeight, blk)
  /\ UNCHANGED highestSeen
  /\ UNCHANGED <<aggVars, prog, redVars, brVars, addVars, agrVars, wireVars, loopVars, provVars, signVars, utilVars>>

\* the goroutine outSync starts on reaching the sync target: it calls
\* chain.ProduceBlock at a moment of its own, unordered with the calls of
\* ProcessBlock that follow the one that started it
ProduceBlockStarts ==
  /\ prog = "synchronizer"
  /\ produceStarting
  /\ produceStarting' = FALSE
  /\ producing' = TRUE
  /\ syncCall' = [op |-> "ProduceBlock"]
  /\ UNCHANGED <<syncState, ledger, highestSeen, syncTarget, blockPool, succeeding, syncRet>>
  /\ UNCHANGED <<aggVars, prog, redVars, brVars, addVars, agrVars, wireVars, loopVars, provVars, signVars, utilVars>>

NeverOverHundred(num, den) == FALSE

\* the test progressPercentage > 100, on prevBlockHeight / highestSeen * 100
OverHundred(num, den) == num * 100 > 100 * den

\* GetSyncProgress: the percentage as the fraction num / den
GetSyncProgress ==
  IF highestSeen = 0 THEN [num |-> 0, den |-> 1]
  ELSE IF OverHundred(CurrentHeight, highestSeen) THEN [num |-> 100, den |-> 1]
  ELSE [num |-> CurrentHeight * 100, den |-> highestSeen]

GetSyncProgressCall ==
  /\ prog = "synchronizer"
  /\ syncCall' = [op |-> "GetSyncProgress"]
  /\ syncRet' = <<GetSyncProgress>>
  /\ UNCHANGED <<syncState, ledger, highestSeen, syncTarget, blockPool, producing, succeeding, produceStarting>>
  /\ UNCHANGED <<aggVars, prog, redVars, brVars, addVars, agrVars, wireVars, loopVars, provVars, signVars, utilVars>>

InitSync ==
  /\ InitAggregator
  /\ InitCallers
  /\ candidates = [h \in Hashes \ {emptyHash} |-> "valid"]
  /\ InitReducer
  /\ InitContext(emptyHash)
  /\ stepVotes = NewStepVotes
  /\ lastAdd = NoAdd
  /\ addErr = FALSE
  /\ addCalls = 0
  /\ InitAgreement
  /\ InitWire
  /\ InitLoop
  /\ provisioners = NewProvisioners
  /\ InitProvisionerCalls
  /\ InitSigning
  /\ InitSynchronizer
  /\ InitUtils
  /\ highestSeen \in {0, 1, MaxHeight}
  /\ prog = "synchronizer"

NextSync ==
  \/ ProcessBlock
  \/ ProduceBlockStarts
  \/ GetSyncProgressCall

SpecSync == InitSync /\ [][NextSync]_vars

\* ------------------------------------------------- utils.Search
\* everything but the utilities and the mempool, at rest
InitOthers ==
  /\ InitAggregator
  /\ InitCallers
  /\ candidates = [h \in Hashes \ {emptyHash} |-> "valid"]
  /\ InitReducer
  /\ InitContext(emptyHash)
  /\ stepVotes = NewStepVotes
  /\ lastAdd = NoAdd
  /\ addErr = FALSE
  /\ addCalls = 0
  /\ InitAgreement
  /\ InitWire
  /\ InitLoop
  /\ provisioners = NewProvisioners
  /\ InitProvisionerCalls
  /\ InitSigning
  /\ InitSynchronizer
  /\ highestSeen = 0

\* what f answers for an index: false, true or an error
Answers == {"false", "true", "error"}

\* the functions f handed to Search, as the table of their answers on the
\* indices up to MaxSearchN + 1
SearchFunctions == [0..(MaxSearchN + 1) -> Answers]

\* f(x); beyond its table f is taken to answer false
Probe(f, x) == IF x \in DOMAIN f THEN f[x] ELSE "false"

\* h := i + j>>1, in which the shift binds tighter than the sum
Midpoint(i, j) == i + (j \div 2)

\* Search entered: var i uint64; j := n
EnterSearch(n, f) ==
  [n |-> n, f |-> f, i |-> 0, j |-> n, h |-> <<>>, pc |-> "loop", ret |-> <<>>]

\* one pass of the loop of Search
SearchLoop ==
  /\ prog = "search"
  /\ search.pc = "loop"
  /\ search.i < search.j
  /\ LET h == Midpoint(search.i, search.j)
         res == Probe(search.f, h)
     IN search' = IF res = "error"
                  THEN [search EXCEPT !.h = <<h>>, !.ret = <<0, "error">>, !.pc = "done"]
                  ELSE IF res = "false"
                  THEN [search EXCEPT !.h = <<h>>, !.i = h + 1]
                  ELSE [search EXCEPT !.h = <<h>>, !.j = h]
  /\ UNCHANGED <<chainTxs, stakeCall, stakeRet, verified, advertised, mempoolCall, mempoolRet>>
  /\ UNCHANGED <<aggVars, prog, redVars, brVars, addVars, agrVars, wireVars, loopVars, provVars, signVars, syncVars>>

\* Search leaves its loop and returns i
SearchReturn ==
  /\ prog = "search"
  /\ search.pc = "loop"
  /\ ~(search.i < search.j)
  /\ search' = [search EXCEPT !.ret = <<search.i, "nil">>, !.pc = "done"]
  /\ UNCHANGED <<chainTxs, stakeCall, stakeRet, verified, advertised, mempoolCall, mempoolRet>>
  /\ UNCHANGED <<aggVars, prog, redVars, brVars, addVars, agrVars, wireVars, loopVars, provVars, signVars, syncVars>>

InitSearch ==
  /\ InitOthers
  /\ \E n \in 0..MaxSearchN, f \in SearchFunctions : search = EnterSearch(n, f)
  /\ chainTxs = <<>>
  /\ stakeCall = NoCall
  /\ stakeRet = <<>>
  /\ verified = NewPool
  /\ advertised = <<>>
  /\ mempoolCall = NoCall
  /\ mempoolRet = <<>>
  /\ prog = "search"

NextSearch ==
  \/ SearchLoop
  \/ SearchReturn

SpecSearch == InitSearch /\ [][NextSearch]_vars

\* Search runs on: a pass of the loop that can be made is made
SpecSearchFair == SpecSearch /\ WF_vars(NextSearch)

\* ------------------------------------------------- InCommittee, FindStake
\* the BLS keys staked with or asked for
StakeKeys == {1, 2}

\* transactions: stakes, which carry a BLS key, and one of another type
ChainTransactions ==
  [Type : {"stake"}, PubKeyBLS : StakeKeys] \cup {[Type |-> "standard", PubKeyBLS |-> 0]}

\* FindStake on the transactions txs from index k on
RECURSIVE FindStakeFrom(_, _, _)
FindStakeFrom(txs, k, item) ==
  IF k > Len(txs) THEN [tx |-> <<>>, err |-> "could not find corresponding stake"]
  ELSE IF txs[k].Type # "stake" THEN FindStakeFrom(txs, k + 1, item)
  ELSE IF item = txs[k].PubKeyBLS THEN [tx |-> <<txs[k]>>, err |-> "nil"]
  ELSE FindStakeFrom(txs, k + 1, item)

FindStake(txs, item) == FindStakeFrom(txs, 1, item)

\* TxRetriever.SearchForTx of a retriever made with FindStake: the
\* transaction FindStake extracts from the chain, or an error
SearchForTx(item) == FindStake(chainTxs, item)

\* InCommittee
InCommittee(blsPubKey) == SearchForTx(blsPubKey).err # "nil"

InCommitteeCall ==
  /\ prog = "committee"
  /\ \E key \in StakeKeys :
       /\ stakeCall' = [op |-> "InCommittee", blsPubKey |-> key]
       /\ stakeRet' = <<InCommittee(key)>>
  /\ UNCHANGED <<search, chainTxs, verified, advertised, mempoolCall, mempoolRet>>
  /\ UNCHANGED <<aggVars, prog, redVars, brVars, addVars, agrVars, wireVars, loopVars, provVars, signVars, syncVars>>

FindStakeCall ==
  /\ prog = "committee"
  /\ \E key \in StakeKeys :
       /\ stakeCall' = [op |-> "FindStake", txs |-> chainTxs, item |-> key]
       /\ stakeRet' = <<FindStake(chainTxs, key).tx, FindStake(chainTxs, key).err>>
  /\ UNCHANGED <<search, chainTxs, verified, advertised, mempoolCall, mempoolRet>>
  /\ UNCHANGED <<aggVars, prog, redVars, brVars, addVars, agrVars, wireVars, loopVars, provVars, signVars, syncVars>>

InitCommittee ==
  /\ InitOthers
  /\ search = NoSearch
  /\ chainTxs \in SeqsUpTo(ChainTransactions, MaxChainTxs)
  /\ stakeCall = NoCall
  /\ stakeRet = <<>>
  /\ verified = NewPool
  /\ advertised = <<>>
  /\ mempoolCall = NoCall
  /\ mempoolRet = <<>>
  /\ prog = "committee"

NextCommittee ==
  \/ InCommitteeCall
  \/ FindStakeCall

SpecCommittee == InitCommittee /\ [][NextCommittee]_vars

\* ------------------------------------------------- Mempool
\* the key images of transaction inputs
KeyImages == {1, 2}

\* transactions: a type and the key images of the inputs
MempoolTxs == [Type : {"standard", "coinbase"}, Inputs : SUBSET KeyImages]

\* tx.CalculateHash: a hash that tells any two transactions apart
CalculateHash(tx) == [hash |-> tx]

\* Pool.Contains
Contains(pool, txid) == txid \in DOMAIN pool

\* Pool.ContainsKeyImage
ContainsKeyImage(pool, keyImage) ==
  \E txid \in DOMAIN pool : keyImage \in pool[txid].Inputs

\* Pool.Put
Put(pool, tx) ==
  [txid \in (DOMAIN pool) \cup {CalculateHash(tx)} |->
     IF txid = CalculateHash(tx) THEN tx ELSE pool[txid]]

neverDoubleSpent(pool, tx) == FALSE

\* Mempool.checkTXDoubleSpent: TRUE iff it returns an error
checkTXDoubleSpent(pool, tx) ==
  \E input \in tx.Inputs : ContainsKeyImage(pool, input)

\* what a call of onPendingTx meets: whether the hash is calculated, what
\* the verification function answers, whether Put and advertiseTx succeed
PendingOutcomes == [hashErr : BOOLEAN, verifyErr : BOOLEAN, putErr : BOOLEAN, advertiseErr : BOOLEAN]

\* Mempool.onPendingTx
onPendingTx(tx, o) ==
  LET txid == CalculateHash(tx)
      call == [op |-> "onPendingTx", tx |-> tx, verifyTx |-> "not called"]
  IN IF o.hashErr
     THEN /\ mempoolRet' = <<<<>>, "calculate tx hash failed">>
          /\ mempoolCall' = call
          /\ advertised' = <<>>
          /\ UNCHANGED verified
     ELSE IF tx.Type = "coinbase"
     THEN /\ mempoolRet' = <<txid, "coinbase tx not allowed">>
          /\ mempoolCall' = call
          /\ advertised' = <<>>
          /\ UNCHANGED verified
     ELSE IF Contains(verified, txid)
     THEN /\ mempoolRet' = <<txid, "already exists">>
          /\ mempoolCall' = call
          /\ advertised' = <<>>
          /\ UNCHANGED verified
     ELSE IF checkTXDoubleSpent(verified, tx)
     THEN /\ mempoolRet' = <<txid, "double-spending">>
          /\ mempoolCall' = call
          /\ advertised' = <<>>
          /\ UNCHANGED verified
     ELSE IF o.verifyErr
     THEN /\ mempoolRet' = <<txid, "verification">>
          /\ mempoolCall' = [call EXCEPT !.verifyTx = "error"]
          /\ advertised' = <<>>
          /\ UNCHANGED verified
     ELSE IF o.putErr
     THEN /\ mempoolRet' = <<txid, "store">>
          /\ mempoolCall' = [call EXCEPT !.verifyTx = "nil"]
          /\ advertised' = <<>>
          /\ UNCHANGED verified
     ELSE /\ verified' = Put(verified, tx)
          /\ mempoolCall' = [call EXCEPT !.verifyTx = "nil"]
          /\ IF o.advertiseErr
             THEN /\ mempoolRet' = <<txid, "advertise">>
                  /\ advertised' = <<>>
             ELSE /\ mempoolRet' = <<txid, "nil">>
                  /\ advertised' = <<txid>>

\* the pending channel hands a transaction to onPendingTx
PendingTx ==
  /\ prog = "mempool"
  /\ \E tx \in MempoolTxs, o \in PendingOutcomes : onPendingTx(tx, o)
  /\ UNCHANGED <<search, chainTxs, stakeCall, stakeRet>>
  /\ UNCHANGED <<aggVars, prog, redVars, brVars, addVars, agrVars, wireVars, loopVars, provVars, signVars, syncVars>>

\* the accepted blocks: their transactions, and whether Header.TxRoot is the
\* root of the merkle tree of these
AcceptedBlocks ==
  [Txs : {txs \in SUBSET MempoolTxs : Cardinality(txs) <= MaxBlockTxs}, rootOK : BOOLEAN]

\* the pool of the transactions of pool with the ids in kept
PoolOf(pool, kept) == [txid \in kept |-> pool[txid]]

\* Mempool.removeAccepted, where Put stores the transactions with ids in
\* kept before it fails, or all that are not in the block
removeAccepted(b, kept) ==
  IF DOMAIN verified = {} THEN UNCHANGED verified
  ELSE IF b.Txs = {} THEN UNCHANGED verified
  ELSE IF ~b.rootOK THEN UNCHANGED verified
  ELSE verified' = PoolOf(verified, kept)

\* the transactions of the pool that the merkle tree of the block lacks
NotInBlock(b) == {txid \in DOMAIN verified : verified[txid] \notin b.Txs}

\* Mempool.onAcceptedBlock
onAcceptedBlock ==
  /\ prog = "mempool"
  /\ \E b \in AcceptedBlocks :
       /\ mempoolCall' = [op |-> "onAcceptedBlock", b |-> b]
       /\ \E kept \in SUBSET NotInBlock(b) : removeAccepted(b, kept)
  /\ mempoolRet' = <<>>
  /\ advertised' = <<>>
  /\ UNCHANGED <<search, chainTxs, stakeCall, stakeRet>>
  /\ UNCHANGED <<aggVars, prog, redVars, brVars, addVars, agrVars, wireVars, loopVars, provVars, signVars, syncVars>>

InitMempool ==
  /\ InitOthers
  /\ InitUtils
  /\ prog = "mempool"

NextMempool ==
  \/ PendingTx
  \/ onAcceptedBlock

SpecMempool == InitMempool /\ [][NextMempool]_vars

\* =================================================== claims on the reducers
\* C8: while the Reducer's listener is subscribed, every vote held by its
\* aggregator is a vote of the step the Reducer is running: a Reduction of
\* another step never enters a vote set
C8_OnlyCurrentStepVotes ==
  (prog = "reducer" /\ listeners # {})
    => \A h \in DOMAIN voteSets : voteSets[h].StepVotes.Step = curStep

C9_WitnessReducer ==
  /\ prog = "reducer"
  /\ timer = "expired"
  /\ ~finished
  /\ voteSets # newVoteSets
  /\ published = <<EmptyBuffer>>
  /\ curStep = FirstStep + 1

\* C14: BlockReduction hands a vote set to sendSetAgreement only when both
\* of its steps ended by quorum, neither by timeout, and the block hash agreed
\* on is not the empty hash
C14_AgreementOnlyAfterTwoQuorums ==
  agreement # <<>> => /\ stepEnds = <<"quorum", "quorum">>
                      /\ ctx.BlockHash # emptyHash

\* Finalize cut a running reduction cycle short: only Finalize stops a timer
Finalized == prog = "reducer" /\ reductionID > 0 /\ timer = "stopped"

\* C11: once Finalize has cut a reduction cycle short, the Reduction listener
\* is unsubscribed, and no event is collected into a vote set, no StepVotes
\* buffer is published and no step update is requested any more
C11_FinalizeEndsCycle ==
  [][/\ Finalized' => listeners' = {}
     /\ Finalized => UNCHANGED <<finished, voteSets, published, curStep>>]_vars

\* =================================================== claims on the aggregator
Delivered == SumOver(delivered, ValidReductions)

\* number of votes StepVotes.Add has aggregated into the vote sets
Aggregated ==
  SumOver([h \in DOMAIN voteSets |-> SumOver(voteSets[h].StepVotes.Apk, Keys)], DOMAIN voteSets)

\* no goroutine is inside collectVote
Quiescent == \A t \in Threads : pc[t] \in {"idle", "lock"}

\* every message delivered so far is of step s
OneStep(s) == \A m \in ValidReductions : delivered[m] > 0 => m.step = s

\* every sender voted at most once so far
OneVoteEach ==
  \A m, n \in ValidReductions :
    (delivered[m] > 0 /\ delivered[n] > 0 /\ m.sender = n.sender) => (m = n /\ delivered[m] = 1)

\* 4 * total >= 3 * size, i.e. total >= ceil(0.75 * committee size)
HasQuorum(h) ==
  /\ h \in DOMAIN voteSets
  /\ \E r \in Rounds :
       4 * TotalOccurrences(voteSets[h].Cluster) >= 3 * CommitteeSize(r, MaxCommitteeSize)

\* C1: at most one HaltMsg is ever sent on haltChan, and once finished is set
\* no collectVote call changes voteSets (or finished) any more
C1_AtMostOneHalt ==
  [][/\ Len(haltChan') <= 1
     /\ (Len(haltChan) = 1 => haltChan' = haltChan)
     /\ (finished => (finished' /\ voteSets' = voteSets))]_vars

\* a call made after the halt was sent has returned without effect
C1_Witness ==
  /\ finished
  /\ Len(haltChan) = 1
  /\ Quiescent
  /\ \E s \in Steps : OneStep(s)
  /\ Delivered > Aggregated

\* C2: finished is set, and a halt is under way or sent, only when a cluster
\* holds at least ceil(0.75 * committee size) occurrences: the cluster of the
\* voted hash of the call that halts, and of the hash of every halt that
\* carries StepVotes
C2_HaltOnlyOnQuorum ==
  /\ (finished \/ haltChan # <<>>) => \E h \in Hashes : HasQuorum(h)
  /\ haltChan # <<>> => finished
  /\ \A t \in Threads : pc[t] \in Suspended => (finished /\ HasQuorum(ev[t].hash))
  /\ \A i \in 1..Len(haltChan) : haltChan[i].Sv # <<>> => HasQuorum(haltChan[i].Hash)

\* a halt for a voted block hash was sent
C2_Witness ==
  /\ Len(haltChan) = 1
  /\ haltChan[1].Hash # emptyHash
  /\ haltChan[1].Sv # <<>>

\* C3: a Reduction message delivered a second time leaves the vote sets (the
\* StepVotes aggregates, the clusters) and finished as they were
C3_DuplicateIsNoOp ==
  [][\A m \in ValidReductions :
       (delivered[m] >= 1 /\ delivered'[m] > delivered[m])
         => (voteSets' = voteSets /\ finished' = finished)]_vars

\* the messages delivered so far, in ascending order of (step, hash, sender)
Rank(m) == (m.step * 100 + m.hash * 10) + m.sender

RECURSIVE RunSorted(_, _)
RunSorted(a, d) ==
  LET left == {m \in ValidReductions : d[m] > 0}
  IN IF left = {} THEN a
     ELSE LET m == CHOOSE x \in left : \A y \in left : Rank(x) <= Rank(y)
          IN RunSorted(collectVote(a, m), [d EXCEPT ![m] = @ - 1])

newAggregator == [finished |-> FALSE, voteSets |-> newVoteSets, haltChan |-> <<>>]

Weight(h) ==
  SumOver([m \in ValidReductions |->
             IF m.hash = h THEN delivered[m] * Committee(m.round, m.step)[m.sender] ELSE 0],
          ValidReductions)

C5_EmptyHashHaltHasNoStepVotes ==
  /\ \A i \in 1..Len(haltChan) : haltChan[i].Hash = emptyHash => haltChan[i].Sv = <<>>
  /\ \A t \in Threads : pc[t] \in {"fetch", "verify"} => ev[t].hash # emptyHash

\* C6: the call that reached quorum on a non-empty hash returns nil, leaves
\* the aggregator finished and has sent the only halt: the empty hash without
\* StepVotes if fetching or verifying the candidate failed, the voted hash
\* with its one StepVotes otherwise
C6_HaltAfterVerification ==
  [][\A t \in Threads :
       (pc[t] = "send" /\ pc'[t] = "idle" /\ ev[t].hash # emptyHash)
         => /\ ret'[t] = "nil"
            /\ finished'
            /\ Len(haltChan') = 1
            /\ IF candidates[ev[t].hash] # "valid"
               THEN haltChan'[1] = [Hash |-> emptyHash, Sv |-> <<>>]
               ELSE haltChan'[1] =
                      [Hash |-> ev[t].hash, Sv |-> <<voteSets[ev[t].hash].StepVotes>>]]_vars

\* quorum was reached on a block whose candidate is missing or invalid
C6_Witness ==
  /\ finished
  /\ Quiescent
  /\ haltChan = <<[Hash |-> emptyHash, Sv |-> <<>>]>>
  /\ \E t \in Threads : ret[t] = "nil"
  /\ \E h \in Hashes \ {emptyHash} : HasQuorum(h) /\ candidates[h] # "valid"

\* the members a StepVotes' BitSet selects, once each
Selected(sv, round) ==
  LET sub == IntersectCluster(Committee(round, sv.Step), sv.BitSet)
  IN [k \in Keys |-> IF sub[k] > 0 THEN 1 ELSE 0]

\* C7: in every StepVotes sent, Apk is the aggregate of exactly the keys the
\* BitSet selects in committee(round, step), once each, and Signature is the
\* aggregate of exactly their signatures
C7_Reconstructible ==
  \A i \in 1..Len(haltChan) :
    \A j \in 1..Len(haltChan[i].Sv) :
      \E r \in Rounds :
        /\ haltChan[i].Sv[j].Apk = Selected(haltChan[i].Sv[j], r)
        /\ haltChan[i].Sv[j].Signature = Selected(haltChan[i].Sv[j], r)

\* C10: no goroutine is at a suspension point (an rpcBus call, the send on
\* haltChan) while it holds aggregator.lock, so no caller of collectVote
\* waits for the lock behind a suspended holder
C10_NoSuspensionUnderLock ==
  \A t, u \in Threads : (pc[t] \in Suspended /\ pc[u] = "lock") => lock # t

\* C12: a collectVote call whose StepVotes.Add fails with a step mismatch (the
\* only failure a correctly signed vote of a committee member can meet)
\* poisons the aggregator: the call leaves finished set, so that no later vote
\* is accepted, with the halt of the empty outcome under way
C12_StepMismatchPoisons ==
  [][\A t \in Threads :
       (pc[t] = "lock" /\ ret'[t] = "err")
         => /\ finished'
            /\ pc'[t] = "send"
            /\ hm'[t] = HaltFailed]_vars

\* =================================================== claims on StepVotes
\* StepVotes.IsEmpty
IsEmpty(sv) == sv.Apk = NilAggregate

\* an Add call is made in this step
AddCalled == addCalls' = addCalls + 1

\* C13: on an empty StepVotes the first successful Add sets Step to the given
\* step and makes Apk and Signature the key and signature of that one vote; a
\* later Add with another step returns an error; and an Add that returns an
\* error, whatever the cause, leaves the StepVotes exactly as it was
C13_AddAtomic ==
  [][AddCalled =>
       /\ (IsEmpty(stepVotes) /\ ~addErr')
            => stepVotes' = [stepVotes EXCEPT
                               !.Step = lastAdd'.step,
                               !.Apk = [k \in Keys |-> IF k = lastAdd'.sender THEN 1 ELSE 0],
                               !.Signature = [k \in Keys |-> IF k = lastAdd'.signature THEN 1 ELSE 0]]
       /\ (~IsEmpty(stepVotes) /\ lastAdd'.step # stepVotes.Step) => addErr'
       /\ addErr' => stepVotes' = stepVotes]_vars

\* =================================================== claims on the agreement handler
\* handler.Verify was called with agr
Verified == verifyErr # "none"

\* the members of the committee of step header.step - 1 + i that the bitset
\* of VotesPerStep[i] selects, i from 0
Subcommittee(a, i) ==
  IntersectCluster(Committee(a.round, VerifyStep(a.step, i)), a.VotesPerStep[i + 1].BitSet)

\* the members whose signatures are aggregated in VotesPerStep[i]
SignerSet(a, i) == {k \in Keys : a.VotesPerStep[i + 1].Signature.signers[k] > 0}

AllVoters(a) == TotalOccurrences(Subcommittee(a, 0)) + TotalOccurrences(Subcommittee(a, 1))

\* C15: Verify returns an error for every Agreement in which the bitset of
\* some StepVotes selects a set of committee members other than the set of
\* members whose signatures were aggregated into its signature
C15_BitsetSignatureMismatchRejected ==
  (Verified /\ \E i \in {0, 1} : ClusterSet(Subcommittee(agr, i)) # SignerSet(agr, i))
    => verifyErr # "nil"

\* the bitset of the first StepVotes selects three members, the signature
\* was made by two of them over the right vote, and Verify fails on it
C15_Witness ==
  /\ Verified
  /\ verifyWhole(agr)
  /\ Cardinality(ClusterSet(Subcommittee(agr, 0))) = 3
  /\ Cardinality(SignerSet(agr, 0)) = 2
  /\ SignerSet(agr, 0) \subseteq ClusterSet(Subcommittee(agr, 0))
  /\ agr.VotesPerStep[1].Signature.step = VerifyStep(agr.step, 0)
  /\ verifyErr = "failed to verify BLS multisig"

\* C16: Verify accepts an Agreement only if the voters its two bitsets
\* select, each counted once per committee occurrence and summed over both
\* steps, number at least Quorum(round), and neither subcommittee is empty
C16_AcceptedHasQuorum ==
  verifyErr = "nil"
    => /\ AllVoters(agr) >= Quorum(agr.round)
       /\ \A i \in {0, 1} : ClusterSet(Subcommittee(agr, i)) # {}

\* an Agreement with valid signatures whose voters are fewer than the quorum
\* is rejected for that, and one with exactly the quorum can be accepted
C16_Witness ==
  /\ Verified
  /\ verifyErr = "vote set too small"
  /\ AllVoters(agr) = Quorum(agr.round) - 1
  /\ \A i \in {0, 1} : ClusterSet(Subcommittee(agr, i)) = SignerSet(agr, i)

\* the Agreement is signed by its sender over the header and each of its
\* StepVotes aggregates one vote of every distinct member of the committee of
\* step header.step - 1 + i, with the bitset of those members
Complete(a) ==
  /\ verifyWhole(a)
  /\ \A i \in {0, 1} :
       LET step == a.step - 1 + i
           members == ClusterSet(Committee(a.round, step))
       IN /\ a.VotesPerStep[i + 1].BitSet = Bits(Committee(a.round, step), members)
          /\ a.VotesPerStep[i + 1].Signature =
               SignatureOver(AggregateOf(members), a.round, step, a.hash)

\* C17: Verify accepts every complete Agreement, whatever its step
C17_CompleteAccepted ==
  (Verified /\ agr.step >= 1 /\ Complete(agr)) => verifyErr = "nil"

\* C18: Verify returns an error for every Agreement whose header step makes
\* header.step - 1 + i leave the range of a uint8 for i = 0 or i = 1
C18_WrappedStepRejected ==
  (Verified /\ \E i \in {0, 1} : agr.step - 1 + i \notin U8) => verifyErr # "nil"

\* C19: the keys getVoterKeys returns are those of the subcommittees Verify
\* checks: for each VotesPerStep[i] the members its bitset selects from the
\* committee of step header.step - 1 + i
C19_VoterKeysOfVerifiedCommittees ==
  voterKeys.err = "nil"
    => voterKeys.keys = Unravel(Subcommittee(agr, 0)) \o Unravel(Subcommittee(agr, 1))

\* =================================================== claims on marshalling
\* the list length the buffer announces
AnnouncedLength == buffer[2].val[1]

\* C20: UnmarshalAgreement on a buffer whose StepVotes list length is not 2
\* returns the malformed-message error and sets no StepVotes in the
\* Agreement; MarshalVotes returns an error for a list holding a nil
\* StepVotes or one with a nil Apk or a nil Signature, and never writes a
\* StepVotes with a nil Apk to the buffer
C20_MalformedRefused ==
  /\ (wireOp = "unmarshal" /\ AnnouncedLength # 2)
       => /\ wireErr = "malformed Agreement message"
          /\ decoded.VotesPerStep = <<>>
  /\ wireOp = "marshal"
       => /\ (\E i \in 1..Len(votesIn) :
                \/ votesIn[i] = NilPointer
                \/ votesIn[i][1].Apk = NilAggregate
                \/ votesIn[i][1].Signature = NilAggregate)
               => wireErr = "invalid stepVotes"
          /\ \A j \in 1..Len(buffer) :
               buffer[j].kind = "varbytes" => buffer[j].val # NilAggregate

\* a buffer announcing three StepVotes and holding three was refused
C20_Witness ==
  /\ wireOp = "unmarshal"
  /\ AnnouncedLength = 3
  /\ Len(buffer) = 2 + 3 * 3
  /\ wireErr = "malformed Agreement message"

\* C21: an Agreement unmarshalled from the marshalling of a well-formed
\* Agreement has the same signed votes and, in each StepVotes, the same Apk,
\* BitSet, Signature and Step
C21_RoundTrip ==
  wireOp = "roundtrip"
    => /\ wireErr = "nil"
       /\ decoded.signedVotes = <<buffer[1].val>>
       /\ decoded.VotesPerStep = votesIn

\* =================================================== claims on the agreement component
\* C22: one run of the agreement component returns at most one winning
\* block hash, and once it has returned one it never returns another
C22_NoDoubleAccept ==
  /\ Len(winners) <= 1
  /\ winners # <<>> => loopState = "returned"

\* a winner was returned while the final result for another hash is waiting
C22_Witness ==
  /\ Len(winners) = 1
  /\ loopState = "returned"
  /\ collectedVotesChan # <<>>
  /\ Head(collectedVotesChan).hash # winners[1]

\* =================================================== claims on Provisioners
SubtractCalled == provCall = NoCall /\ provCall'.op = "SubtractFromStake"

\* the first stake (in slice order) with a non-zero amount, 0 if there is none
FirstNonZero(stakes) ==
  IF \E i \in 1..Len(stakes) : stakes[i].Amount > 0
  THEN CHOOSE i \in 1..Len(stakes) :
         stakes[i].Amount > 0 /\ \A j \in 1..(i - 1) : stakes[j].Amount = 0
  ELSE 0

\* C23: SubtractFromStake(amount) changes only the first stake with a
\* non-zero amount, decreasing it by the smaller of amount and that stake's
\* amount; it returns the amount by which the member's total stake
\* decreased, leaves no stake below zero, and returns 0 with all stakes
\* unchanged when every stake is zero
C23_SubtractFromFirstNonZero ==
  [][SubtractCalled =>
       LET k == provCall'.key
           amount == provCall'.amount
           before == provisioners.Members[k]
           after == provisioners'.Members[k]
           i == FirstNonZero(before)
       IN /\ provisioners'.Set = provisioners.Set
          /\ DOMAIN provisioners'.Members = DOMAIN provisioners.Members
          /\ \A o \in (DOMAIN provisioners.Members) \ {k} :
               provisioners'.Members[o] = provisioners.Members[o]
          /\ Len(after) = Len(before)
          /\ \A j \in 1..Len(after) : after[j].Amount >= 0
          /\ provRet' = <<SumAmounts(before) - SumAmounts(after)>>
          /\ IF i = 0 THEN after = before /\ provRet' = <<0>>
             ELSE after = [before EXCEPT ![i].Amount = @ - Min(amount, @)]]_vars

\* more was asked for than the first non-zero stake of a member with two
\* stakes held: it was emptied and less than asked for was returned
C23_Witness ==
  /\ provCall.op = "SubtractFromStake"
  /\ provRet[1] > 0
  /\ provRet[1] < provCall.amount
  /\ LET stakes == provisioners.Members[provCall.key]
     IN Len(stakes) = 2 /\ stakes[1].Amount = 0 /\ stakes[2].Amount = 0
          /\ stakes[1].EndHeight # stakes[2].EndHeight

GetStakeCalled == provCall.op # "GetStake" /\ provCall'.op = "GetStake"

\* C24: GetStake returns an error and no stake for a key that is not of the
\* length of a BLS public key, whether it is in Members or not, and for a
\* key of that length that is not in Members; for a key of that length in
\* Members it returns the sum of the member's stake amounts; the provisioner
\* set is left unchanged
C24_GetStakeErrors ==
  [][GetStakeCalled =>
       LET k == provCall'.key
           r == provRet'[1]
       IN /\ provisioners' = provisioners
          /\ ByteLen(k) # PubKeyLen => (r.err = "wrong length" /\ r.stake = 0)
          /\ (ByteLen(k) = PubKeyLen /\ k \notin DOMAIN provisioners.Members)
               => (r.err = "not found" /\ r.stake = 0)
          /\ (ByteLen(k) = PubKeyLen /\ k \in DOMAIN provisioners.Members)
               => (r.err = "nil" /\ r.stake = SumAmounts(provisioners.Members[k]))]_vars

\* the stake of a member whose key is too short was asked for and refused
C24_Witness ==
  /\ provCall.op = "GetStake"
  /\ ByteLen(provCall.key) # PubKeyLen
  /\ provCall.key \in DOMAIN provisioners.Members
  /\ provisioners.Members[provCall.key] # <<>>
  /\ provRet[1].err = "wrong length"

\* the stake of a member holding two non-zero stakes was returned
C24_WitnessKnown ==
  /\ provCall.op = "GetStake"
  /\ provRet[1].err = "nil"
  /\ provRet[1].stake = 2 * MaxAmount

\* a stake is active at a round iff StartHeight <= round <= EndHeight
Active(stake, round) == stake.StartHeight <= round /\ round <= stake.EndHeight

\* the stakes of a list that are active at a round
ActiveStakes(stakes, round) == SelectSeq(stakes, LAMBDA st : Active(st, round))

\* the sum of the amounts of the stakes active at a round, over all members
ActiveWeight(p, round) ==
  TotalWeightOver([k \in DOMAIN p.Members |-> ActiveStakes(p.Members[k], round)],
                  DOMAIN p.Members)

\* the SubsetSizeAt half of C25: each member with at least one stake active
\* at the round is counted exactly once
SubsetSizeCountsActiveMembers ==
  provCall.op = "SubsetSizeAt"
    => provRet[1] = Cardinality({k \in DOMAIN provisioners.Members :
                                   ActiveStakes(provisioners.Members[k], provCall.round) # <<>>})

\* C25: the subset size at a round counts each member with at least one
\* stake active at the round exactly once, and the total weight used for a
\* round is the sum of the stakes active at that round only
C25_ActiveStakesOnly ==
  /\ SubsetSizeCountsActiveMembers
  /\ provCall.op = "TotalWeight" => provRet[1] = ActiveWeight(provisioners, provCall.round)

\* C26: in every Provisioners value, the one of NewProvisioners and the ones
\* UnmarshalProvisioners returns included, every key of the Set resolves to
\* a member in Members, every key of Members is in the Set, and there are as
\* many of the one as of the other
C26_SetAndMembersAgree ==
  /\ \A n \in provisioners.Set : MemberOf(provisioners, n) # <<>>
  /\ \A k \in DOMAIN provisioners.Members : SetBytes(k) \in provisioners.Set
  /\ Cardinality(provisioners.Set) = Cardinality(DOMAIN provisioners.Members)

\* the same for the inputs in which no key starts with a zero byte
SetAndMembersAgreeWithoutLeadingZeros ==
  (\A k \in DOMAIN provisioners.Members : k.zeros = 0) => C26_SetAndMembersAgree

\* =================================================== claims on vote signatures
\* C27: the signature SignReductionEvent puts in the event is a signature
\* over the signable vote bytes (round, step, block hash), so it verifies as
\* a vote for exactly the round, step and block hash of the event
C27_SignatureBindsRoundAndStep ==
  /\ reduction.SignedHash # <<>>
       => reduction.SignedHash[1].msg =
            MarshalSignableVote([Round |-> reduction.Round, Step |-> reduction.Step,
                                 BlockHash |-> reduction.VotedHash])
  /\ voteCheck.done
       => (voteCheck.ok <=> /\ voteCheck.Round = reduction.Round
                            /\ voteCheck.Step = reduction.Step
                            /\ voteCheck.BlockHash = reduction.VotedHash)

\* what does hold: the signature is over the block hash alone, the same for
\* every round and step
SignatureOverHashOnly ==
  reduction.SignedHash # <<>>
    => reduction.SignedHash[1] = blsSign(reduction.PubKeyBLS, HashBytes(reduction.VotedHash))

\* =================================================== claims on the synchronizer
\* C28: GetSyncProgress returns a percentage from 0 to 100: 0 while
\* highestSeen is 0, otherwise currentHeight / highestSeen * 100, and 100
\* when that is more than 100
C28_ProgressInRange ==
  syncCall.op = "GetSyncProgress"
    => LET p == syncRet[1]
       IN /\ p.den > 0
          /\ 0 <= p.num
          /\ p.num <= 100 * p.den
          /\ highestSeen = 0 => p.num = 0
          /\ highestSeen > 0
               => p.num * highestSeen = Min(CurrentHeight * 100, 100 * highestSeen) * p.den

\* the chain is ahead of the highest block seen and the progress is 100
C28_Witness ==
  /\ syncCall.op = "GetSyncProgress"
  /\ highestSeen > 0
  /\ CurrentHeight > highestSeen
  /\ syncRet[1] = [num |-> 100, den |-> 1]

\* a ProcessBlock call made in sync on a block more than one above the chain
FutureBlockInSync ==
  /\ syncState = "inSync"
  /\ syncCall'.op = "ProcessBlock"
  /\ syncCall'.blk.Height > CurrentHeight + 1

\* what C29 says of such a call, but for the response
FutureBlockEffects ==
  /\ syncCall'.blk.Height \in DOMAIN blockPool'
  /\ blockPool'[syncCall'.blk.Height] = syncCall'.blk
  /\ producing' = FALSE
  /\ syncTarget' = Min(syncCall'.blk.Height, CurrentHeight + MaxInvBlocks)
  /\ syncState' = "outSync"

\* the response is a GetBlocks request whose locator is the hash of the
\* block at the current height
GetBlocksReturned == syncRet' = <<GetBlocksRequest(BlockHashByHeight(CurrentHeight)), "nil">>

C30_SuccessiveBlockHandedOver ==
  [][(/\ syncState = "inSync"
      /\ syncCall'.op = "ProcessBlock"
      /\ syncCall'.blk.Height = CurrentHeight + 1)
       => /\ succeeding' = <<syncCall'.blk>>
          /\ syncRet' = <<<<>>, "nil">>
          /\ blockPool' = blockPool
          /\ syncState' = "inSync"
          /\ UNCHANGED <<producing, syncTarget>>]_vars

\* the second block of the chain was handed over in sync and accepted
C30_Witness ==
  /\ syncCall.op = "ProcessBlock"
  /\ syncState = "inSync"
  /\ succeeding = <<syncCall.blk>>
  /\ syncRet = <<<<>>, "nil">>
  /\ CurrentHeight = 2
  /\ ledger[2] = syncCall.blk
  /\ blockPool = EmptyPool
  /\ producing

\* C31: a call of ProcessBlock with a block whose height is at most the
\* chain's current height changes nothing: the state, the sync target, the
\* sequencer, the ledger and the block production stay as they were, and the
\* call returns no message and no error
C31_PastBlockIsNoOp ==
  [][(syncCall'.op = "ProcessBlock" /\ syncCall'.blk.Height <= CurrentHeight)
       => /\ syncRet' = <<<<>>, "nil">>
          /\ UNCHANGED <<syncState, syncTarget, blockPool, ledger, producing,
                         succeeding, produceStarting>>]_vars

\* out of sync, a block other than the one the ledger holds at its height
\* was handed in and discarded
C31_Witness ==
  /\ syncCall.op = "ProcessBlock"
  /\ syncCall.blk.Height <= CurrentHeight
  /\ ledger[syncCall.blk.Height] # syncCall.blk
  /\ syncState = "outSync"
  /\ syncRet = <<<<>>, "nil">>

\* StopBlockProduction is called on every step from inSync to outSync
StoppedOnLeavingSync ==
  (syncState = "inSync" /\ syncState' = "outSync") => producing' = FALSE

\* the goroutine calling ProduceBlock is started only on a step from outSync
\* to inSync, one in which the block at the sync target entered the ledger
ProduceTriggeredOnReachingTarget ==
  (produceStarting' /\ ~produceStarting)
    => /\ syncState = "outSync"
       /\ syncState' = "inSync"
       /\ Len(ledger') > Len(ledger)
       /\ ledger'[Len(ledger')].Height = syncTarget

\* a step from outSync to inSync is one that starts the goroutine
InSyncOnlyOnReachingTarget ==
  (syncState = "outSync" /\ syncState' = "inSync")
    => /\ produceStarting'
       /\ ledger'[Len(ledger')].Height = syncTarget

\* out of sync, a block with a gap to the chain is stored and nothing else
GapBlockOnlyBuffered ==
  (/\ syncState = "outSync"
   /\ syncCall'.op = "ProcessBlock"
   /\ syncCall'.blk.Height > CurrentHeight + 1)
    => /\ blockPool' = SequencerAdd(blockPool, syncCall'.blk)
       /\ UNCHANGED <<syncState, ledger, producing, produceStarting, succeeding,
                      syncTarget>>

\* the calls C32 names are made where it says they are made
C32_CallsAsStated ==
  [][/\ StoppedOnLeavingSync
     /\ ProduceTriggeredOnReachingTarget
     /\ InSyncOnlyOnReachingTarget
     /\ GapBlockOnlyBuffered]_vars

\* C32: block production is stopped whenever the synchronizer is out of sync:
\* it is stopped on every step from inSync to outSync and started again only
\* on a step from outSync to inSync, after the block at the sync target was
\* accepted; out of sync, a block with a gap is only buffered
C32_NoProductionOutOfSync ==
  /\ [](syncState = "outSync" => ~producing)
  /\ C32_CallsAsStated

\* the goroutine of an earlier return to inSync called ProduceBlock after
\* the synchronizer had left inSync again
C32_ProducingOutOfSync ==
  /\ syncState = "outSync"
  /\ producing
  /\ syncCall.op = "ProduceBlock"

\* C33: the synchronizer leaves inSync for outSync only in a call that
\* returns a GetBlocks request built from the hash of the block at the
\* current height, and returns no error
C33_OutOfSyncOnlyWithRequest ==
  [][(syncState = "inSync" /\ syncState' = "outSync")
       => syncRet' = <<GetBlocksRequest(BlockHashByHeight(CurrentHeight)), "nil">>]_vars

\* the hash was not fetched: the call returned an error and no request, and
\* left the synchronizer out of sync with the production stopped
C33_OutOfSyncWithoutRequest ==
  /\ syncState = "outSync"
  /\ syncCall.op = "ProcessBlock"
  /\ syncRet[1] = <<>>
  /\ syncRet[2] # "nil"
  /\ ~producing

\* ------------------------------------------ claims on countVotesReduction
\* countVotesReduction took a message from ctx.ReductionChan whose sender was
\* already in voters
DuplicateReceived ==
  /\ brpc \in {"count1", "count2"}
  /\ brCall'.op = "ReductionChan"
  /\ brCall'.m.PubKey \in voters

\* among the votes of the running step no key has two, and this node's own
\* key has none
OneVotePerKey ==
  brpc \in {"count1", "count2"} =>
    \A i, j \in 1..Len(ctx.BlockVotes) :
      ctx.BlockVotes[i].Step = ctx.Step =>
        /\ ctx.BlockVotes[i].PubKey # OwnKey
        /\ (j # i /\ ctx.BlockVotes[j].Step = ctx.Step)
             => ctx.BlockVotes[j].PubKey # ctx.BlockVotes[i].PubKey

\* C34: countVotesReduction counts each public key at most once in a step: a
\* Reduction message from a key already in voters, this node's own key
\* included, changes neither the counts nor ctx.BlockVotes, is no error, and
\* leaves the loop running
C34_DuplicateVoterIsNoOp ==
  /\ []OneVotePerKey
  /\ [][DuplicateReceived
          => UNCHANGED <<counts, voters, ctx, brpc, brRet, stepEnds>>]_vars

\* a second message of a voter whose vote is held was taken and skipped
C34_Witness ==
  /\ brCall.op = "ReductionChan"
  /\ brCall.m.PubKey \in voters \ {OwnKey}
  /\ \E i \in 1..Len(ctx.BlockVotes) :
       /\ ctx.BlockVotes[i].PubKey = brCall.m.PubKey
       /\ ctx.BlockVotes[i].Step = ctx.Step
       /\ ctx.BlockVotes[i].Hash # brCall.m.BlockHash
  /\ brpc = "count1"
  /\ brRet = "none"

\* a message of this node's own key was taken and skipped
C34_WitnessOwnKey ==
  /\ brCall.op = "ReductionChan"
  /\ brCall.m.PubKey = OwnKey
  /\ brpc = "count1"
  /\ counts[brCall.m.BlockHash] = 0

\* countVotesReduction returned because the hash of the message it took
\* reached the vote threshold
EndedByQuorum ==
  /\ brpc \in {"count1", "count2"}
  /\ brCall'.op = "ReductionChan"
  /\ stepEnds' = Append(stepEnds, "quorum")

\* C35: when countVotesReduction ends because a block hash reached the vote
\* threshold, ctx.BlockHash is that hash and every vote left in
\* ctx.BlockVotes is a vote for it
C35_OnlyWinningVotesRemain ==
  [][EndedByQuorum
       => /\ ctx'.BlockHash = brCall'.m.BlockHash
          /\ \A i \in 1..Len(ctx'.BlockVotes) :
               ctx'.BlockVotes[i].Hash = ctx'.BlockHash]_vars

\* the second step ended by quorum and left a vote for another hash
C35_LosingVoteRemains ==
  /\ brpc = "agree"
  /\ stepEnds[Len(stepEnds)] = "quorum"
  /\ \E i \in 1..Len(ctx.BlockVotes) : ctx.BlockVotes[i].Hash # ctx.BlockHash

\* ------------------------------------------------- claims on utils.Search
\* f answers without an error on [0, n), false up to some index and true
\* from it on
MonotoneOn(n, f) ==
  /\ \A x \in 0..(n - 1) : f[x] # "error"
  /\ \A x, y \in 0..(n - 1) : (x < y /\ f[x] = "true") => f[y] = "true"

\* the smallest index of [0, n] at which f is true, n if it is true nowhere
FirstTrue(n, f) ==
  CHOOSE x \in 0..n :
    /\ x = n \/ f[x] = "true"
    /\ \A y \in 0..(x - 1) : f[y] # "true"

\* Search has returned for a predicate that is monotone on [0, n)
ReturnedForMonotone ==
  /\ search.pc = "done"
  /\ MonotoneOn(search.n, search.f)

\* the pass of the loop made in this step probed an index where f fails
ProbedAnError ==
  /\ search.pc = "loop"
  /\ search.i < search.j
  /\ search' # search
  /\ Probe(search.f, search'.h[1]) = "error"

\* C36: for an error-free monotone f on [0, n), Search returns the smallest
\* index of [0, n] at which f is true, n if there is none, as sort.Search
\* does; when f fails at a probed index, Search returns 0 and the error
C36_SearchFindsFirstTrue ==
  /\ [](ReturnedForMonotone => search.ret = <<FirstTrue(search.n, search.f), "nil">>)
  /\ [][ProbedAnError => (search'.pc = "done" /\ search'.ret = <<0, "error">>)]_vars

\* Search returned an index beyond n for a predicate that is false on all
\* of [0, n)
C36_ReturnedBeyondN ==
  /\ ReturnedForMonotone
  /\ search.ret[2] = "nil"
  /\ search.ret[1] > search.n

\* the step is a pass of the loop
LoopPass ==
  /\ search.pc = "loop"
  /\ search.i < search.j
  /\ search' # search

\* C37: Search terminates for every n and every total f, and in every pass
\* of its loop the index probed satisfies i <= h < j, so that f is called on
\* indices of [0, n) only and [i, j) shrinks with every pass
C37_SearchTerminates ==
  /\ <>(search.pc = "done")
  /\ [](search.h # <<>> => search.h[1] < search.n)
  /\ [][LoopPass => /\ search.i <= search'.h[1]
                    /\ search'.h[1] < search.j
                    /\ search'.pc = "loop"
                         => search'.j - search'.i < search.j - search.i]_vars

\* Search probed an index that is not below j, got true, and stands in its
\* loop with the same i and j as before that pass: it probes that index
\* again, for ever
C37_LoopsForEver ==
  /\ search.pc = "loop"
  /\ search.i < search.j
  /\ search.h = <<search.j>>
  /\ Midpoint(search.i, search.j) = search.j
  /\ Probe(search.f, search.j) = "true"

\* ------------------------------------------ claims on InCommittee, FindStake
\* the indices of the stakes of the chain made with the BLS key
StakesOf(key) ==
  {k \in 1..Len(chainTxs) : chainTxs[k].Type = "stake" /\ chainTxs[k].PubKeyBLS = key}

\* FindStake returned the first stake of the key and no error, or no
\* transaction and an error when the key has no stake
FindStakeReturnsFirst ==
  stakeCall.op = "FindStake" =>
    IF StakesOf(stakeCall.item) = {}
    THEN stakeRet[1] = <<>> /\ stakeRet[2] # "nil"
    ELSE /\ stakeRet[2] = "nil"
         /\ \E k \in StakesOf(stakeCall.item) :
              /\ stakeRet[1] = <<chainTxs[k]>>
              /\ \A l \in StakesOf(stakeCall.item) : k <= l

\* C38: InCommittee(blsPubKey) is true exactly when the search finds a stake
\* whose BLS key is the key given, and false when there is none; FindStake
\* returns the first such stake, or an error when there is none
C38_InCommitteeIffStakeFound ==
  /\ FindStakeReturnsFirst
  /\ stakeCall.op = "InCommittee"
       => (stakeRet = <<TRUE>> <=> StakesOf(stakeCall.blsPubKey) # {})

\* InCommittee answered true for a key without a stake on the chain
C38_TrueWithoutStake ==
  /\ stakeCall.op = "InCommittee"
  /\ StakesOf(stakeCall.blsPubKey) = {}
  /\ chainTxs # <<>>
  /\ stakeRet = <<TRUE>>

\* ------------------------------------------------- claims on the Mempool
\* the verified pool holds no coinbase, every transaction under its own id,
\* and no two transactions with a key image in common
PoolInvariant ==
  /\ \A txid \in DOMAIN verified :
       /\ verified[txid].Type # "coinbase"
       /\ CalculateHash(verified[txid]) = txid
  /\ \A a, b \in DOMAIN verified :
       a # b => verified[a].Inputs \cap verified[b].Inputs = {}

\* what onPendingTx advertised is the id of a transaction of the pool
AdvertisedIsStored ==
  advertised # <<>> => /\ mempoolCall.op = "onPendingTx"
                       /\ advertised[1] = CalculateHash(mempoolCall.tx)
                       /\ advertised[1] \in DOMAIN verified

\* a transaction enters the pool in a call of onPendingTx for it in which
\* the verification function was called and returned no error
EntersOnlyVerified ==
  \A txid \in (DOMAIN verified') \ (DOMAIN verified) :
    /\ mempoolCall'.op = "onPendingTx"
    /\ CalculateHash(mempoolCall'.tx) = txid
    /\ mempoolCall'.verifyTx = "nil"

\* C39: after any sequence of pending transactions and accepted blocks the
\* verified pool holds no coinbase transaction, no two entries with the same
\* tx id and no two transactions sharing an input key image; a transaction
\* enters the pool only after passing the verification function, and its
\* hash is advertised only after it was stored in the pool
C39_MempoolAdmission ==
  /\ [](PoolInvariant /\ AdvertisedIsStored)
  /\ [][EntersOnlyVerified]_vars

\* with two transactions in the pool, a third that spends a key image of
\* theirs was refused
C39_WitnessRefused ==
  /\ Cardinality(DOMAIN verified) = 2
  /\ mempoolCall.op = "onPendingTx"
  /\ mempoolRet[2] = "double-spending"
  /\ \E txid \in DOMAIN verified : verified[txid].Inputs \cap mempoolCall.tx.Inputs # {}

\* a verified transaction spending both key images was admitted to a pool
\* that held another transaction, and its id was advertised
C39_Witness ==
  /\ Cardinality(DOMAIN verified) = 2
  /\ mempoolCall.op = "onPendingTx"
  /\ mempoolCall.verifyTx = "nil"
  /\ mempoolRet[2] = "nil"
  /\ advertised = <<mempoolRet[1]>>
  /\ mempoolCall.tx.Inputs = KeyImages
  /\ verified[mempoolRet[1]] = mempoolCall.tx

\* ------------------------------------------ claims on Provisioners.MemberAt
MemberAtCalled == provCall.op # "MemberAt" /\ provCall'.op = "MemberAt"

\* C40: MemberAt(i) never panics: for an index i >= len(Set) it returns the
\* error "index out of bound", and for i < len(Set) it returns the member,
\* not nil, whose BLS key is the i-th key of the ordered Set
C40_MemberAtNeverPanics ==
  [][MemberAtCalled =>
       LET i == provCall'.i
           r == provRet'[1]
       IN /\ ~r.panic
          /\ i >= Cardinality(provisioners.Set)
               => (r.err = "index out of bound" /\ r.member = <<>>)
          /\ i < Cardinality(provisioners.Set)
               => /\ r.err = "nil"
                  /\ r.member # <<>>
                  /\ \E k \in DOMAIN provisioners.Members :
                       /\ SetBytes(k) = SortedSet(provisioners.Set)[i + 1]
                       /\ r.member = <<provisioners.Members[k]>>]_vars

\* MemberAt was called on a set of two members with index 2 and indexed the
\* Set at its length
C40_PanicAtLength ==
  /\ provCall.op = "MemberAt"
  /\ Cardinality(provisioners.Set) = 2
  /\ provCall.i = 2
  /\ provRet[1].panic

\* MemberAt was called with an index within an unmarshalled Set and returned
\* a nil member without an error
C40_NilMember ==
  /\ provCall.op = "MemberAt"
  /\ provCall.i < Cardinality(provisioners.Set)
  /\ provRet[1].err = "nil"
  /\ ~provRet[1].panic
  /\ provRet[1].member = <<>>

====
